---- MODULE Spec2Model ----
(***************************************************************************)
(* The EVP proxy of the trace agent: evpProxyTransport.RoundTrip, the      *)
(* validators, and the endpoint resolver evpProxyEndpointsFromConfig.      *)
(*                                                                         *)
(* Go strings are sequences of one-character strings ("" is << >>), so     *)
(* that concatenation, iteration over runes and comparison of runes are    *)
(* what they are in the code.  Indices of Go slices are 0-based in the     *)
(* code and 1-based here: endpoints[0] of the code is endpoints[1].        *)
(***************************************************************************)
EXTENDS Integers, Sequences, FiniteSets, TLC

\* ------------------------------------------------------------------ bounds
\* Largest number of additional (host, credential) pairs of a configuration.
MaxAdditional == 2
\* Largest length of an inbound request body, in bytes.
MaxBodyLen == 2
\* Largest length of a string given to the validators on their own.
MaxStrLen == 2

\* ------------------------------------------------------------- characters
\* The printable ASCII characters, in code point order starting at 32 (the
\* grave accent, code point 96, is spelled out).
Ascii ==
  << " ", "!", "\"", "#", "$", "%", "&", "'", "(", ")", "*", "+", ",", "-",
     ".", "/", "0", "1", "2", "3", "4", "5", "6", "7", "8", "9", ":", ";",
     "<", "=", ">", "?", "@", "A", "B", "C", "D", "E", "F", "G", "H", "I",
     "J", "K", "L", "M", "N", "O", "P", "Q", "R", "S", "T", "U", "V", "W",
     "X", "Y", "Z", "[", "\\", "]", "^", "_", "grave", "a", "b", "c", "d", "e",
     "f", "g", "h", "i", "j", "k", "l", "m", "n", "o", "p", "q", "r", "s",
     "t", "u", "v", "w", "x", "y", "z", "{", "|", "}", "~" >>

\* The code point of each character.
CodePoints ==
  [c \in { Ascii[k] : k \in 1..Len(Ascii) } |->
     31 + CHOOSE k \in 1..Len(Ascii) : Ascii[k] = c]

\* The code point of a rune.
Ord(c) == CodePoints[c]

\* strings.ContainsRune(s, c)
ContainsRune(s, c) == \E k \in 1..Len(s) : s[k] = c

validSubdomainSymbols == << "_", "-", "." >>
validPathSymbols == << "/", "_", "-", "+" >>
validPathQueryStringSymbols ==
  << "/", "_", "-", "+", "@", "?", "&", "=", ".", ":", "\"" >>

\* RejectedRune with the lower bound of the lowercase letters off by one.
RejectedRuneOffByOne(c, symbols) ==
  /\ (Ord(c) <= Ord("a") \/ Ord(c) > Ord("z"))
  /\ (Ord(c) < Ord("A") \/ Ord(c) > Ord("Z"))
  /\ (Ord(c) < Ord("0") \/ Ord(c) > Ord("9"))
  /\ ~ContainsRune(symbols, c)

\* The test each validator applies to one rune: TRUE when the rune is
\* rejected.
RejectedRune(c, symbols) ==
  /\ (Ord(c) < Ord("a") \/ Ord(c) > Ord("z"))
  /\ (Ord(c) < Ord("A") \/ Ord(c) > Ord("Z"))
  /\ (Ord(c) < Ord("0") \/ Ord(c) > Ord("9"))
  /\ ~ContainsRune(symbols, c)

isValidSubdomain(s) ==
  \A k \in 1..Len(s) : ~RejectedRune(s[k], validSubdomainSymbols)

isValidPath(s) ==
  \A k \in 1..Len(s) : ~RejectedRune(s[k], validPathSymbols)

isValidQueryString(s) ==
  \A k \in 1..Len(s) : ~RejectedRune(s[k], validPathQueryStringSymbols)

\* ------------------------------------------------------------ nil values
\* A nil error, a nil *http.Response and a nil request body.
NilErr == [msg |-> "nil", arg |-> << >>]
NilResp == [StatusCode |-> 0, send |-> 0]
NoBody == [present |-> FALSE, data |-> << >>, limit |-> 0, broken |-> FALSE]

\* fmt.Errorf(msg + "%s", arg)
Errorf(msg, arg) == [msg |-> msg, arg |-> arg]

\* ----------------------------------------------------------- http.Header
\* An http.Header is a map from header name to a list of values.
\* Header.Get: the first value of the key, "" when there is none.
Get(h, k) == IF k \in DOMAIN h /\ Len(h[k]) > 0 THEN h[k][1] ELSE << >>

\* Header.Set: the key's values are replaced by the single value v.
Set(h, k, v) == [x \in (DOMAIN h) \cup {k} |-> IF x = k THEN << v >> ELSE h[x]]

\* http.Header{}
EmptyHeader == [x \in {} |-> << >>]

\* ---------------------------------------------------------- configuration
Site == << "u", "s" >>
BaselineAPIKey == << "k" >>
OverrideDDURL == << "o", "v" >>
OverrideAPIKey == << "o", "k" >>
AdditionalHosts == { << "e", "u" >>, << "a", "p" >> }
Hostname == << "h" >>
DefaultEnv == << "e" >>
Version == << "7" >>

\* The credentials configured for one additional host: "k0", "k1", ...
KeyList(n) == [k \in 1..n |-> << "k", Ascii[16 + k] >>]

RECURSIVE TotalKeys(_, _)
TotalKeys(m, hosts) ==
  IF hosts = {} THEN 0
  ELSE LET h == CHOOSE x \in hosts : TRUE
       IN Len(m[h]) + TotalKeys(m, hosts \ {h})

\* The values of conf.EVPProxy.AdditionalEndpoints (map[string][]string).
AdditionalMaps ==
  { m \in UNION { [H -> { KeyList(n) : n \in 1..MaxAdditional }] :
                    H \in SUBSET AdditionalHosts } :
      TotalKeys(m, DOMAIN m) <= MaxAdditional }

\* The orders in which a range loop may enumerate the keys of a Go map.
MapOrders(m) ==
  { o \in [1..Cardinality(DOMAIN m) -> DOMAIN m] :
      \A a, b \in DOMAIN o : a # b => o[a] # o[b] }

\* The container tags the agent knows: container "c" has tags, "d" has none.
ContainerTags == [cid \in { << "c" >>, << "d" >> } |->
                    IF cid = << "c" >> THEN << "t", ":", "c" >> ELSE << >>]

\* The configurations (config.AgentConfig) of the model.
Confs ==
  { [Site |-> Site, APIKey |-> BaselineAPIKey, Hostname |-> Hostname,
     DefaultEnv |-> DefaultEnv, ContainerTags |-> ContainerTags,
     EVPProxy |-> [Enabled |-> TRUE, APIKey |-> ov[1], DDURL |-> ov[2],
                   AdditionalEndpoints |-> m, MaxPayloadSize |-> mps]] :
      ov \in { << >>, OverrideAPIKey } \X { << >>, OverrideDDURL },
      m \in AdditionalMaps, mps \in {0, 1} }

\* EndpointsOf that stops after the first credential of the host.
EndpointsOfFirstKey(host, keys) ==
  [k \in 1..(IF Len(keys) > 0 THEN 1 ELSE 0) |-> [Host |-> host, APIKey |-> keys[k]]]

\* The endpoints one host of the additional endpoints contributes.
EndpointsOf(host, keys) ==
  [k \in 1..Len(keys) |-> [Host |-> host, APIKey |-> keys[k]]]

RECURSIVE AppendAdditional(_, _, _)
AppendAdditional(endpoints, m, order) ==
  IF order = << >> THEN endpoints
  ELSE AppendAdditional(endpoints \o EndpointsOf(Head(order), m[Head(order)]),
                        m, Tail(order))

\* evpProxyEndpointsFromConfig with overrides that apply only together.
endpointsFromConfigCoupled(conf, order) ==
  LET both == conf.EVPProxy.APIKey # << >> /\ conf.EVPProxy.DDURL # << >>
      apiKey == IF both THEN conf.EVPProxy.APIKey ELSE conf.APIKey
      endpoint == IF both THEN conf.EVPProxy.DDURL ELSE conf.Site
      mainEndpoint == [Host |-> endpoint, APIKey |-> apiKey]
  IN AppendAdditional(<< mainEndpoint >>, conf.EVPProxy.AdditionalEndpoints, order)

\* evpProxyEndpointsFromConfig; order is the order in which the range loop
\* enumerates conf.EVPProxy.AdditionalEndpoints.
evpProxyEndpointsFromConfig(conf, order) ==
  LET apiKey == IF conf.EVPProxy.APIKey = << >> THEN conf.APIKey
                ELSE conf.EVPProxy.APIKey
      endpoint == IF conf.EVPProxy.DDURL = << >> THEN conf.Site
                  ELSE conf.EVPProxy.DDURL
      mainEndpoint == [Host |-> endpoint, APIKey |-> apiKey]
  IN AppendAdditional(<< mainEndpoint >>, conf.EVPProxy.AdditionalEndpoints, order)

\* ---------------------------------------------------------------- requests
\* The header of a request as the reverse proxy hands it to RoundTrip: the
\* Director has set X-Forwarded-For to nil.
Director(h) == [x \in (DOMAIN h) \cup {"X-Forwarded-For"} |->
                  IF x = "X-Forwarded-For" THEN << >> ELSE h[x]]

\* A header holding the given (name, value) pairs whose value is not "".
HeaderOf(pairs) ==
  LET present == { p \in pairs : p[2] # << >> }
  IN [x \in { p[1] : p \in present } |->
        << (CHOOSE p \in present : p[1] = x)[2] >>]

SubdomainValues == { << >>, << "m", ".", "s" >>, << "g", "%" >> }
PathValues == { << "/", "m", "s", "/", "p" >>, << "/", "m", " ", "p" >> }
QueryValues == { << >>, << "a", "=", "1" >>, << "a", " ", "b" >> }
\* The recognized and unrecognized inbound headers, as tuples << container
\* id, content type, user agent, whether there are unrecognized headers >>.
HeaderValues ==
  { << << >>, << >>, << >>, FALSE >>,
    << << "c" >>, << "t", "/", "j" >>, << "u", "a" >>, TRUE >>,
    << << "d" >>, << "t", "/", "j" >>, << >>, FALSE >> }

\* The inbound bodies: none, a reader over 0..MaxBodyLen bytes, or a reader
\* that fails while it is read.
BodyValues ==
  {NoBody} \cup
  { [present |-> TRUE, data |-> [k \in 1..n |-> k], limit |-> 0, broken |-> FALSE] :
      n \in 0..MaxBodyLen } \cup
  { [present |-> TRUE, data |-> << 1 >>, limit |-> 0, broken |-> TRUE] }

\* The requests RoundTrip is called with.
Requests ==
  { [Header |-> Director(HeaderOf(
        { << "X-Datadog-EVP-Subdomain", sub >>, << "Datadog-Container-ID", hv[1] >>,
          << "Content-Type", hv[2] >>, << "User-Agent", hv[3] >>,
          << "Unexpected-Header", IF hv[4] THEN << "x" >> ELSE << >> >>,
          << "DD-API-KEY", IF hv[4] THEN << "e", "v" >> ELSE << >> >> })),
     URL |-> [Scheme |-> << >>, Host |-> << >>, Path |-> path, RawQuery |-> query],
     Host |-> << "l", "o" >>,
     Body |-> body,
     ContentLength |-> Len(body.data)] :
      sub \in SubdomainValues, hv \in HeaderValues, path \in PathValues,
      query \in QueryValues, body \in BodyValues }

\* ------------------------------------------------------------ request body
ErrLimitedReaderLimitReached == [msg |-> "read limit reached", arg |-> << >>]
ErrUnexpectedEOF == [msg |-> "unexpected EOF", arg |-> << >>]

\* apiutil.NewLimitedReader(body, limit)
NewLimitedReader(body, limit) == [body EXCEPT !.limit = limit]

\* The error of reading a body to its end: the limit of a limited reader is
\* passed when the body holds more bytes than the limit.
ReadErr(body) ==
  IF body.limit > 0 /\ Len(body.data) > body.limit THEN ErrLimitedReaderLimitReached
  ELSE IF body.broken THEN ErrUnexpectedEOF
  ELSE NilErr

\* ioutil.ReadAll(body)
ReadAll(body) ==
  IF ReadErr(body) # NilErr THEN [data |-> << >>, err |-> ReadErr(body)]
  ELSE [data |-> body.data, err |-> NilErr]

\* ioutil.NopCloser(bytes.NewReader(slurp))
NewReader(data) == [present |-> TRUE, data |-> data, limit |-> 0, broken |-> FALSE]

\* ------------------------------------------------- the steps of RoundTrip
contentTypeTag ==
  << "c", "o", "n", "t", "e", "n", "t", "_", "t", "y", "p", "e", ":" >>
subdomainTag == << "s", "u", "b", "d", "o", "m", "a", "i", "n", ":" >>
https == << "h", "t", "t", "p", "s" >>

\* metricTags as set before the deferred function is registered.
initialMetricTags(r) ==
  LET ct == Get(r.Header, "Content-Type")
  IN IF ct # << >> THEN << contentTypeTag \o ct >> ELSE << >>

\* validate without the check of the query string.
validateNoQuery(subdomain, path, rawQuery) ==
  IF Len(subdomain) = 0
    THEN Errorf("EVPProxy: no subdomain specified", << >>)
  ELSE IF ~isValidSubdomain(subdomain)
    THEN Errorf("EVPProxy: invalid subdomain: ", subdomain)
  ELSE IF ~isValidPath(path)
    THEN Errorf("EVPProxy: invalid target path: ", path)
  ELSE NilErr

\* validate without the check for an empty subdomain.
validateNoEmptyCheck(subdomain, path, rawQuery) ==
  IF ~isValidSubdomain(subdomain)
    THEN Errorf("EVPProxy: invalid subdomain: ", subdomain)
  ELSE IF ~isValidPath(path)
    THEN Errorf("EVPProxy: invalid target path: ", path)
  ELSE IF ~isValidQueryString(rawQuery)
    THEN Errorf("EVPProxy: invalid query string: ", rawQuery)
  ELSE NilErr

\* validate that checks the path before the subdomain.
validatePathFirst(subdomain, path, rawQuery) ==
  IF ~isValidPath(path)
    THEN Errorf("EVPProxy: invalid target path: ", path)
  ELSE IF Len(subdomain) = 0
    THEN Errorf("EVPProxy: no subdomain specified", << >>)
  ELSE IF ~isValidSubdomain(subdomain)
    THEN Errorf("EVPProxy: invalid subdomain: ", subdomain)
  ELSE IF ~isValidQueryString(rawQuery)
    THEN Errorf("EVPProxy: invalid query string: ", rawQuery)
  ELSE NilErr

\* validate without the check of the path.
validateNoPath(subdomain, path, rawQuery) ==
  IF Len(subdomain) = 0
    THEN Errorf("EVPProxy: no subdomain specified", << >>)
  ELSE IF ~isValidSubdomain(subdomain)
    THEN Errorf("EVPProxy: invalid subdomain: ", subdomain)
  ELSE IF ~isValidQueryString(rawQuery)
    THEN Errorf("EVPProxy: invalid query string: ", rawQuery)
  ELSE NilErr

\* The error of the input sanitization, NilErr when the input is accepted.
validate(subdomain, path, rawQuery) ==
  IF Len(subdomain) = 0
    THEN Errorf("EVPProxy: no subdomain specified", << >>)
  ELSE IF ~isValidSubdomain(subdomain)
    THEN Errorf("EVPProxy: invalid subdomain: ", subdomain)
  ELSE IF ~isValidPath(path)
    THEN Errorf("EVPProxy: invalid target path: ", path)
  ELSE IF ~isValidQueryString(rawQuery)
    THEN Errorf("EVPProxy: invalid query string: ", rawQuery)
  ELSE NilErr

\* sanitizedMetricTags that appends the subdomain tag before the subdomain
\* is checked.
sanitizedMetricTagsUnchecked(tags, subdomain) ==
  IF Len(subdomain) # 0
    THEN Append(tags, subdomainTag \o subdomain)
  ELSE tags

\* metricTags when RoundTrip leaves the sanitization: the subdomain tag is
\* appended once the two subdomain checks have passed.
sanitizedMetricTags(tags, subdomain) ==
  IF Len(subdomain) # 0 /\ isValidSubdomain(subdomain)
    THEN Append(tags, subdomainTag \o subdomain)
  ELSE tags

\* getContainerTags(conf.ContainerTags, containerID)
getContainerTags(fn, containerID) ==
  IF containerID # << >> /\ containerID \in DOMAIN fn THEN fn[containerID]
  ELSE << >>

\* rewriteHeader without the clearing of the inbound header.
rewriteHeaderKeeps(r, c) ==
  LET containerID == Get(r.Header, "Datadog-Container-ID")
      contentType == Get(r.Header, "Content-Type")
      userAgent == Get(r.Header, "User-Agent")
      h0 == Set(r.Header, "Via",
                << "t", "r", "a", "c", "e", "-", "a", "g", "e", "n", "t", " " >>
                  \o Version)
      h1 == IF contentType # << >> THEN Set(h0, "Content-Type", contentType) ELSE h0
      h2 == Set(h1, "User-Agent", userAgent)
      ctags == getContainerTags(c.ContainerTags, containerID)
      h3 == IF ctags # << >> THEN Set(h2, "X-Datadog-Container-Tags", ctags) ELSE h2
      h4 == Set(h3, "X-Datadog-Hostname", c.Hostname)
  IN Set(h4, "X-Datadog-AgentDefaultEnv", c.DefaultEnv)

\* rewriteHeader that leaves User-Agent out when the inbound one is empty.
rewriteHeaderSkipsEmptyUserAgent(r, c) ==
  LET containerID == Get(r.Header, "Datadog-Container-ID")
      contentType == Get(r.Header, "Content-Type")
      userAgent == Get(r.Header, "User-Agent")
      h0 == Set(EmptyHeader, "Via",
                << "t", "r", "a", "c", "e", "-", "a", "g", "e", "n", "t", " " >>
                  \o Version)
      h1 == IF contentType # << >> THEN Set(h0, "Content-Type", contentType) ELSE h0
      h2 == IF userAgent # << >> THEN Set(h1, "User-Agent", userAgent) ELSE h1
      ctags == getContainerTags(c.ContainerTags, containerID)
      h3 == IF ctags # << >> THEN Set(h2, "X-Datadog-Container-Tags", ctags) ELSE h2
      h4 == Set(h3, "X-Datadog-Hostname", c.Hostname)
  IN Set(h4, "X-Datadog-AgentDefaultEnv", c.DefaultEnv)

\* rewriteHeader that sets X-Datadog-Container-Tags whatever the lookup
\* returns.
rewriteHeaderAlwaysContainerTags(r, c) ==
  LET containerID == Get(r.Header, "Datadog-Container-ID")
      contentType == Get(r.Header, "Content-Type")
      userAgent == Get(r.Header, "User-Agent")
      h0 == Set(EmptyHeader, "Via",
                << "t", "r", "a", "c", "e", "-", "a", "g", "e", "n", "t", " " >>
                  \o Version)
      h1 == IF contentType # << >> THEN Set(h0, "Content-Type", contentType) ELSE h0
      h2 == Set(h1, "User-Agent", userAgent)
      ctags == getContainerTags(c.ContainerTags, containerID)
      h3 == Set(h2, "X-Datadog-Container-Tags", ctags)
      h4 == Set(h3, "X-Datadog-Hostname", c.Hostname)
  IN Set(h4, "X-Datadog-AgentDefaultEnv", c.DefaultEnv)

\* The header RoundTrip gives the request r in place of its inbound header:
\* the header is cleared and the known headers are set.
rewriteHeader(r, c) ==
  LET containerID == Get(r.Header, "Datadog-Container-ID")
      contentType == Get(r.Header, "Content-Type")
      userAgent == Get(r.Header, "User-Agent")
      h0 == Set(EmptyHeader, "Via",
                << "t", "r", "a", "c", "e", "-", "a", "g", "e", "n", "t", " " >>
                  \o Version)
      h1 == IF contentType # << >> THEN Set(h0, "Content-Type", contentType) ELSE h0
      h2 == Set(h1, "User-Agent", userAgent)
      ctags == getContainerTags(c.ContainerTags, containerID)
      h3 == IF ctags # << >> THEN Set(h2, "X-Datadog-Container-Tags", ctags) ELSE h2
      h4 == Set(h3, "X-Datadog-Hostname", c.Hostname)
  IN Set(h4, "X-Datadog-AgentDefaultEnv", c.DefaultEnv)

\* setTarget with the endpoint's host as the target host, the subdomain left
\* out.
setTargetNoSubdomain(r, sub, host, apiKey) ==
  [r EXCEPT !.Host = host, !.URL.Host = host,
            !.Header = Set(r.Header, "DD-API-KEY", apiKey)]

\* setTarget that also routes by path: the subdomain is prepended to the
\* path.
setTargetPrependsSubdomain(r, sub, host, apiKey) ==
  LET targetHost == sub \o << "." >> \o host
  IN [r EXCEPT !.Host = targetHost, !.URL.Host = targetHost,
               !.URL.Path = << "/" >> \o sub \o r.URL.Path,
               !.Header = Set(r.Header, "DD-API-KEY", apiKey)]

\* The closure setTarget of RoundTrip, which captures subdomain.
setTarget(r, sub, host, apiKey) ==
  LET targetHost == sub \o << "." >> \o host
  IN [r EXCEPT !.Host = targetHost, !.URL.Host = targetHost,
               !.Header = Set(r.Header, "DD-API-KEY", apiKey)]

\* req.Clone(req.Context()): a deep copy; the body reader is shared.
Clone(r) == r

\* readerOf with one reader over slurp, built before the loop.
readerOfShared(idx, slurp) == IF ~slurp.isNil THEN 1 ELSE 0

\* Which reader the request of the iteration with index idx has as its
\* body: 0 is the reader of the request RoundTrip works on, which Clone
\* shares; each iteration builds a reader of its own over slurp.
readerOf(idx, slurp) == IF ~slurp.isNil THEN idx + 1 ELSE 0

\* endpointAt over the list walked from its end.
endpointAtReversed(eps, idx) == eps[Len(eps) - idx]

\* The endpoint of the iteration with index idx of the range loop.
endpointAt(eps, idx) == eps[idx + 1]

\* loopDone of a loop that leaves out the last endpoint.
loopDoneEarly(eps, idx) == idx >= Len(eps) - 1

\* The range loop over t.endpoints is over at index idx.
loopDone(eps, idx) == idx >= Len(eps)

\* handleResult without the test for the first endpoint: every result is
\* kept, so the last one is returned.
handleResultLastWins(idx, out, resp, err) ==
  [rresp |-> out.resp, rerr |-> out.err, logged |-> << >>,
   body |-> [drained |-> 0, closed |-> 0]]

\* handleResult that returns the error of a secondary endpoint.
handleResultPropagates(idx, out, resp, err) ==
  IF idx = 0
    THEN [rresp |-> out.resp, rerr |-> out.err, logged |-> << >>,
          body |-> [drained |-> 0, closed |-> 0]]
  ELSE IF out.err = NilErr
    THEN [rresp |-> resp, rerr |-> err, logged |-> << >>,
          body |-> [drained |-> 1, closed |-> 1]]
  ELSE [rresp |-> NilResp, rerr |-> out.err, logged |-> << out.err >>,
        body |-> [drained |-> 0, closed |-> 0]]

\* handleResult that leaves the response of a secondary endpoint open.
handleResultLeavesOpen(idx, out, resp, err) ==
  IF idx = 0
    THEN [rresp |-> out.resp, rerr |-> out.err, logged |-> << >>,
          body |-> [drained |-> 0, closed |-> 0]]
  ELSE IF out.err = NilErr
    THEN [rresp |-> resp, rerr |-> err, logged |-> << >>,
          body |-> [drained |-> 1, closed |-> 0]]
  ELSE [rresp |-> resp, rerr |-> err, logged |-> << out.err >>,
        body |-> [drained |-> 0, closed |-> 0]]

\* What one iteration does with what the transport returned (out) for the
\* endpoint with index idx, given the named results so far: the new named
\* results, the errors logged, and how often the response body was drained
\* and closed.
handleResult(idx, out, resp, err) ==
  IF idx = 0
    THEN [rresp |-> out.resp, rerr |-> out.err, logged |-> << >>,
          body |-> [drained |-> 0, closed |-> 0]]
  ELSE IF out.err = NilErr
    THEN [rresp |-> resp, rerr |-> err, logged |-> << >>,
          body |-> [drained |-> 1, closed |-> 1]]
  ELSE [rresp |-> resp, rerr |-> err, logged |-> << out.err >>,
        body |-> [drained |-> 0, closed |-> 0]]

\* The deferred function without the timing when the call failed.
deferredMetricsNoTimingOnError(tags, contentLength, err) ==
  << [name |-> "datadog.trace_agent.evp_proxy.request", value |-> 1, tags |-> tags],
     [name |-> "datadog.trace_agent.evp_proxy.request_bytes",
      value |-> contentLength, tags |-> tags] >>
  \o (IF err # NilErr
        THEN << [name |-> "datadog.trace_agent.evp_proxy.request_error",
                 value |-> 1, tags |-> tags] >>
      ELSE << [name |-> "datadog.trace_agent.evp_proxy.request_duration_ms",
               value |-> 0, tags |-> tags] >>)

\* The deferred function with an error counter that carries no tag.
deferredMetricsErrorUntagged(tags, contentLength, err) ==
  << [name |-> "datadog.trace_agent.evp_proxy.request", value |-> 1, tags |-> tags],
     [name |-> "datadog.trace_agent.evp_proxy.request_bytes",
      value |-> contentLength, tags |-> tags],
     [name |-> "datadog.trace_agent.evp_proxy.request_duration_ms",
      value |-> 0, tags |-> tags] >>
  \o (IF err # NilErr
        THEN << [name |-> "datadog.trace_agent.evp_proxy.request_error",
                 value |-> 1, tags |-> << >>] >>
      ELSE << >>)

\* The metrics the deferred function emits when RoundTrip returns.
deferredMetrics(tags, contentLength, err) ==
  << [name |-> "datadog.trace_agent.evp_proxy.request", value |-> 1, tags |-> tags],
     [name |-> "datadog.trace_agent.evp_proxy.request_bytes",
      value |-> contentLength, tags |-> tags],
     [name |-> "datadog.trace_agent.evp_proxy.request_duration_ms",
      value |-> 0, tags |-> tags] >>
  \o (IF err # NilErr
        THEN << [name |-> "datadog.trace_agent.evp_proxy.request_error",
                 value |-> 1, tags |-> tags] >>
      ELSE << >>)

\* ------------------------------------------------- the underlying transport
ErrRefused == [msg |-> "connection refused", arg |-> << >>]
ErrTimeout == [msg |-> "i/o timeout", arg |-> << >>]

\* How many bytes of a request's body the transport may have read when it
\* returns: none or all of a body that can be read to its end.
BytesRead(body) ==
  IF body.present /\ ReadErr(body) = NilErr THEN { 0, Len(body.data) } ELSE { 0 }

\* What t.transport.RoundTrip may return for the k-th request it is handed,
\* read being how many bytes of the request's body it has read: a refused
\* connection, before any byte of the body is read; a timeout, after the
\* request was written; a response, which the transport is free to return
\* before it has read the body to its end; the error of the request's body
\* when the transport met it while it read the body.
Outcomes(k, r) ==
  { [resp |-> NilResp, err |-> ErrRefused, read |-> 0] }
  \cup { [resp |-> NilResp, err |-> ErrTimeout, read |-> n] :
           n \in { m \in BytesRead(r.Body) : \A o \in BytesRead(r.Body) : o <= m } }
  \cup { [resp |-> [StatusCode |-> 200, send |-> k], err |-> NilErr, read |-> n] :
           n \in BytesRead(r.Body) }
  \cup (IF ReadErr(r.Body) # NilErr
          THEN { [resp |-> NilResp, err |-> ReadErr(r.Body), read |-> 0] }
        ELSE {})

\* -------------------------------------------------------------------- state
VARIABLES
  conf,        \* evpProxyTransport.conf
  endpoints,   \* evpProxyTransport.endpoints
  pc,          \* where the RoundTrip call is
  inreq,       \* the request as RoundTrip received it
  req,         \* the request object RoundTrip was called with, as it is now
  subdomain,   \* the local subdomain, captured by setTarget
  metricTags,  \* the local metricTags, captured by the deferred function
  slurp,       \* the local slurp
  i,           \* the index of the range loop over t.endpoints (0-based)
  rresp, rerr, \* the named results of RoundTrip
  sent,        \* the requests handed to t.transport.RoundTrip in this call
  results,     \* what t.transport.RoundTrip returned for each of them
  respBody,    \* per returned response: times drained, times closed
  logs,        \* the errors given to log.Error in this call
  metrics,     \* the metrics emitted in this call
  reply,       \* what the handler of evpProxyHandler wrote to its ResponseWriter
  input,       \* the argument of a function that is applied on its own
  output,      \* what the function returned for it
  errorLog,    \* what the reverse proxy wrote to its ErrorLog
  calls,       \* the RoundTrip calls that run concurrently on the transport
  tailer,      \* a DockerSocketTailer, its run goroutine and the caller of Stop
  pipe         \* a TracePipe, the goroutine of Channel and the channels' users

vars == << conf, endpoints, pc, inreq, req, subdomain, metricTags, slurp, i,
           rresp, rerr, sent, results, respBody, logs, metrics, reply, input,
           output, errorLog, calls, tailer, pipe >>

NilSlurp == [isNil |-> TRUE, data |-> << >>]

\* No DockerSocketTailer and no TracePipe has been constructed.
NoTailer == << >>
NoPipe == << >>

\* Nothing has been written to the ResponseWriter.
NoReply == [StatusCode |-> 0, Body |-> << >>]

\* A request has reached the handler and nothing has been done with it.
InitRequest ==
  /\ pc = "idle"
  /\ inreq \in Requests
  /\ req = inreq
  /\ subdomain = << >>
  /\ metricTags = << >>
  /\ slurp = NilSlurp
  /\ i = 0
  /\ rresp = NilResp
  /\ rerr = NilErr
  /\ sent = << >>
  /\ results = << >>
  /\ respBody = << >>
  /\ logs = << >>
  /\ metrics = << >>
  /\ reply = NoReply
  /\ input = << >>
  /\ output = << >>
  /\ errorLog = << >>
  /\ calls = << >>
  /\ tailer = NoTailer
  /\ pipe = NoPipe

\* evpProxyForwarder: the transport is built over the endpoints resolved from
\* the configuration; no call is running.
Init ==
  /\ conf \in Confs
  /\ \E order \in MapOrders(conf.EVPProxy.AdditionalEndpoints) :
       endpoints = evpProxyEndpointsFromConfig(conf, order)
  /\ InitRequest

\* RoundTrip from its entry to the end of the header rewriting: the body is
\* wrapped, the input sanitized (a rejected input returns here) and the
\* headers and the scheme rewritten.
Sanitize ==
  /\ pc = "idle"
  /\ LET limited == IF req.Body.present /\ conf.EVPProxy.MaxPayloadSize > 0
                      THEN [req EXCEPT !.Body =
                              NewLimitedReader(req.Body, conf.EVPProxy.MaxPayloadSize)]
                    ELSE req
         sub == Get(req.Header, "X-Datadog-EVP-Subdomain")
         err == validate(sub, req.URL.Path, req.URL.RawQuery)
         tags == sanitizedMetricTags(initialMetricTags(req), sub)
     IN /\ subdomain' = sub
        /\ metricTags' = tags
        /\ IF err # NilErr
             THEN /\ req' = limited
                  /\ rresp' = NilResp
                  /\ rerr' = err
                  /\ metrics' = deferredMetrics(tags, req.ContentLength, err)
                  /\ pc' = "done"
           ELSE /\ req' = [limited EXCEPT !.Header = rewriteHeader(req, conf),
                                          !.URL.Scheme = https]
                /\ UNCHANGED << rresp, rerr, metrics >>
                /\ pc' = "sanitized"
  /\ UNCHANGED << reply, input, output, errorLog, calls, tailer, pipe >>
  /\ UNCHANGED << conf, endpoints, inreq, slurp, i, sent, results, respBody, logs >>

\* The shortcut for one endpoint, up to the call of the transport.
SendSingle ==
  /\ pc = "sanitized"
  /\ Len(endpoints) = 1
  /\ LET target == setTarget(req, subdomain, endpoints[1].Host, endpoints[1].APIKey)
     IN /\ req' = target
        /\ sent' = Append(sent, [req |-> target, idx |-> 0, reader |-> 0])
  /\ pc' = "single"
  /\ UNCHANGED << reply, input, output, errorLog, calls, tailer, pipe >>
  /\ UNCHANGED << conf, endpoints, inreq, subdomain, metricTags, slurp, i, rresp,
                  rerr, results, respBody, logs, metrics >>

\* The shortcut for one endpoint: the transport returns and RoundTrip returns
\* what it returned.
ReturnSingle ==
  /\ pc = "single"
  /\ \E out \in Outcomes(Len(sent), sent[Len(sent)].req) :
       /\ results' = Append(results, out)
       /\ respBody' = Append(respBody, [drained |-> 0, closed |-> 0])
       /\ rresp' = out.resp
       /\ rerr' = out.err
       /\ metrics' = deferredMetrics(metricTags, req.ContentLength, out.err)
  /\ pc' = "done"
  /\ UNCHANGED << reply, input, output, errorLog, calls, tailer, pipe >>
  /\ UNCHANGED << conf, endpoints, inreq, req, subdomain, metricTags, slurp, i,
                  sent, logs >>

\* Slurp without the shortcut before it: the body is read also when there
\* is one endpoint.
SlurpWithoutShortcut ==
  /\ pc = "sanitized"
  /\ IF req.Body.present
       THEN LET read == ReadAll(req.Body)
            IN IF read.err # NilErr
                 THEN /\ rresp' = NilResp
                      /\ rerr' = read.err
                      /\ metrics' = deferredMetrics(metricTags, req.ContentLength,
                                                    read.err)
                      /\ pc' = "done"
                      /\ UNCHANGED slurp
               ELSE /\ slurp' = [isNil |-> FALSE, data |-> read.data]
                    /\ pc' = "loop"
                    /\ UNCHANGED << rresp, rerr, metrics >>
     ELSE /\ pc' = "loop"
          /\ UNCHANGED << slurp, rresp, rerr, metrics >>
  /\ i' = 0
  /\ UNCHANGED << reply, input, output, errorLog, calls, tailer, pipe >>
  /\ UNCHANGED << conf, endpoints, inreq, req, subdomain, metricTags, sent,
                  results, respBody, logs >>

\* Slurp that returns no error when the body cannot be read.
SlurpReturnsNilError ==
  /\ pc = "sanitized"
  /\ Len(endpoints) # 1
  /\ IF req.Body.present
       THEN LET read == ReadAll(req.Body)
            IN IF read.err # NilErr
                 THEN /\ rresp' = NilResp
                      /\ rerr' = NilErr
                      /\ metrics' = deferredMetrics(metricTags, req.ContentLength,
                                                    NilErr)
                      /\ pc' = "done"
                      /\ UNCHANGED slurp
               ELSE /\ slurp' = [isNil |-> FALSE, data |-> read.data]
                    /\ pc' = "loop"
                    /\ UNCHANGED << rresp, rerr, metrics >>
     ELSE /\ pc' = "loop"
          /\ UNCHANGED << slurp, rresp, rerr, metrics >>
  /\ i' = 0
  /\ UNCHANGED << reply, input, output, errorLog, calls, tailer, pipe >>
  /\ UNCHANGED << conf, endpoints, inreq, req, subdomain, metricTags, sent,
                  results, respBody, logs >>

\* Slurp that drops the error of ioutil.ReadAll and goes on with what was
\* read.
SlurpIgnoresReadError ==
  /\ pc = "sanitized"
  /\ Len(endpoints) # 1
  /\ IF req.Body.present
       THEN slurp' = [isNil |-> FALSE, data |-> ReadAll(req.Body).data]
     ELSE UNCHANGED slurp
  /\ pc' = "loop"
  /\ i' = 0
  /\ UNCHANGED << reply, input, output, errorLog, calls, tailer, pipe >>
  /\ UNCHANGED << conf, endpoints, inreq, req, subdomain, metricTags, sent,
                  results, respBody, logs, rresp, rerr, metrics >>

\* More than one endpoint: the body is read into slurp; a read error returns.
Slurp ==
  /\ pc = "sanitized"
  /\ Len(endpoints) # 1
  /\ IF req.Body.present
       THEN LET read == ReadAll(req.Body)
            IN IF read.err # NilErr
                 THEN /\ rresp' = NilResp
                      /\ rerr' = read.err
                      /\ metrics' = deferredMetrics(metricTags, req.ContentLength,
                                                    read.err)
                      /\ pc' = "done"
                      /\ UNCHANGED slurp
               ELSE /\ slurp' = [isNil |-> FALSE, data |-> read.data]
                    /\ pc' = "loop"
                    /\ UNCHANGED << rresp, rerr, metrics >>
     ELSE /\ pc' = "loop"
          /\ UNCHANGED << slurp, rresp, rerr, metrics >>
  /\ i' = 0
  /\ UNCHANGED << reply, input, output, errorLog, calls, tailer, pipe >>
  /\ UNCHANGED << conf, endpoints, inreq, req, subdomain, metricTags, sent,
                  results, respBody, logs >>

\* One iteration of the loop, up to the call of the transport: the request
\* is cloned, given its own reader over slurp and its target.
Send ==
  /\ pc = "loop"
  /\ ~loopDone(endpoints, i)
  /\ LET endpointDomain == endpointAt(endpoints, i)
         cloned == Clone(req)
         newreq == IF ~slurp.isNil
                     THEN [cloned EXCEPT !.Body = NewReader(slurp.data)]
                   ELSE cloned
         target == setTarget(newreq, subdomain, endpointDomain.Host,
                             endpointDomain.APIKey)
     IN sent' = Append(sent, [req |-> target, idx |-> i,
                             reader |-> readerOf(i, slurp)])
  /\ pc' = "wait"
  /\ UNCHANGED << reply, input, output, errorLog, calls, tailer, pipe >>
  /\ UNCHANGED << conf, endpoints, inreq, req, subdomain, metricTags, slurp, i,
                  rresp, rerr, results, respBody, logs, metrics >>

\* Receive with a loop that is left when the first endpoint has failed.
ReceiveStopsOnPrimaryError ==
  /\ pc = "wait"
  /\ \E out \in Outcomes(Len(sent), sent[Len(sent)].req) :
       LET h == handleResult(i, out, rresp, rerr)
       IN /\ results' = Append(results, out)
          /\ rresp' = h.rresp
          /\ rerr' = h.rerr
          /\ logs' = logs \o h.logged
          /\ respBody' = Append(respBody, h.body)
          /\ i' = IF i = 0 /\ out.err # NilErr THEN Len(endpoints) ELSE i + 1
  /\ pc' = "loop"
  /\ UNCHANGED << reply, input, output, errorLog, calls, tailer, pipe >>
  /\ UNCHANGED << conf, endpoints, inreq, req, subdomain, metricTags, slurp,
                  sent, metrics >>

\* The rest of the iteration: the transport returns; the result of the first
\* endpoint is kept, the response of another one is drained and closed, the
\* error of another one is logged.
Receive ==
  /\ pc = "wait"
  /\ \E out \in Outcomes(Len(sent), sent[Len(sent)].req) :
       LET h == handleResult(i, out, rresp, rerr)
       IN /\ results' = Append(results, out)
          /\ rresp' = h.rresp
          /\ rerr' = h.rerr
          /\ logs' = logs \o h.logged
          /\ respBody' = Append(respBody, h.body)
  /\ i' = i + 1
  /\ pc' = "loop"
  /\ UNCHANGED << reply, input, output, errorLog, calls, tailer, pipe >>
  /\ UNCHANGED << conf, endpoints, inreq, req, subdomain, metricTags, slurp,
                  sent, metrics >>

\* The loop is over: RoundTrip returns rresp and rerr.
Return ==
  /\ pc = "loop"
  /\ loopDone(endpoints, i)
  /\ metrics' = deferredMetrics(metricTags, req.ContentLength, rerr)
  /\ pc' = "done"
  /\ UNCHANGED << reply, input, output, errorLog, calls, tailer, pipe >>
  /\ UNCHANGED << conf, endpoints, inreq, req, subdomain, metricTags, slurp, i,
                  rresp, rerr, sent, results, respBody, logs >>

Next ==
  \/ Sanitize
  \/ SendSingle
  \/ ReturnSingle
  \/ Slurp
  \/ Send
  \/ Receive
  \/ Return

Spec == Init /\ [][Next]_vars

\* ---------------------------------------------------------- the forwarder
\* The configurations of the forwarder: those without overrides.
ForwarderConfs ==
  { c \in Confs : c.EVPProxy.APIKey = << >> /\ c.EVPProxy.DDURL = << >> }

ForwarderInit ==
  /\ conf \in ForwarderConfs
  /\ \E order \in MapOrders(conf.EVPProxy.AdditionalEndpoints) :
       endpoints = evpProxyEndpointsFromConfig(conf, order)
  /\ InitRequest

\* The httputil.ReverseProxy that evpProxyForwarder returns, once its
\* Transport has returned: an error is written to ErrorLog and answered with
\* http.StatusBadGateway and no body; a response is copied to the caller.
ServeReply ==
  /\ pc = "done"
  /\ IF rerr # NilErr
       THEN /\ errorLog' = Append(errorLog,
                                  [msg |-> "http: proxy error: ", err |-> rerr])
            /\ reply' = [StatusCode |-> 502, Body |-> << >>]
     ELSE /\ reply' = [StatusCode |-> rresp.StatusCode, Body |-> << rresp.send >>]
          /\ UNCHANGED errorLog
  /\ pc' = "replied"
  /\ UNCHANGED << conf, endpoints, inreq, req, subdomain, metricTags, slurp, i,
                  rresp, rerr, sent, results, respBody, logs, metrics, input,
                  output, calls, tailer, pipe >>

ForwarderNext ==
  \/ Next
  \/ ServeReply

ForwarderSpec == ForwarderInit /\ [][ForwarderNext]_vars

\* ------------------------------------------------------- concurrent calls
\* The calls that run at the same time on one evpProxyTransport.
CallIds == { 1, 2 }

\* The configurations of the concurrent calls: no overrides, no limit on the
\* body, at most one additional endpoint.
ConcurrentConfs ==
  { c \in Confs : /\ c.EVPProxy.APIKey = << >>
                  /\ c.EVPProxy.DDURL = << >>
                  /\ c.EVPProxy.MaxPayloadSize = 0
                  /\ TotalKeys(c.EVPProxy.AdditionalEndpoints,
                               DOMAIN c.EVPProxy.AdditionalEndpoints) <= 1
                  /\ DOMAIN c.EVPProxy.AdditionalEndpoints \subseteq { << "e", "u" >> } }

\* The request with another subdomain.
WithSubdomain(r, sub) ==
  [r EXCEPT !.Header = [x \in DOMAIN r.Header |->
                          IF x = "X-Datadog-EVP-Subdomain" THEN << sub >>
                          ELSE r.Header[x]]]

\* The requests of the concurrent calls: a path and a query that pass, no
\* body or a body of one byte, and the subdomains "m.s", "n" and "g%".
ConcurrentRequests ==
  LET base == { r \in Requests :
                  /\ isValidPath(r.URL.Path)
                  /\ r.URL.RawQuery = << >>
                  /\ Get(r.Header, "X-Datadog-EVP-Subdomain") # << >>
                  /\ Get(r.Header, "Content-Type") # << >>
                  /\ r.Body \in { NoBody, NewReader(<< 1 >>) } }
  IN base \cup { WithSubdomain(r, << "n" >>) :
                   r \in { b \in base :
                             isValidSubdomain(Get(b.Header, "X-Datadog-EVP-Subdomain")) } }

\* The locals of a RoundTrip call that was just entered with the request r.
NewCall(r) ==
  [pc |-> "idle", inreq |-> r, req |-> r, subdomain |-> << >>,
   metricTags |-> << >>, slurp |-> NilSlurp, i |-> 0, rresp |-> NilResp,
   rerr |-> NilErr, sent |-> << >>, results |-> << >>, respBody |-> << >>]

ConcurrentInit ==
  /\ conf \in ConcurrentConfs
  /\ \E order \in MapOrders(conf.EVPProxy.AdditionalEndpoints) :
       endpoints = evpProxyEndpointsFromConfig(conf, order)
  /\ calls \in [CallIds -> { NewCall(r) : r \in ConcurrentRequests }]
  /\ pc = "concurrent"
  /\ inreq = CHOOSE r \in Requests : r.Header = Director(EmptyHeader) /\ r.Body = NoBody
  /\ req = inreq
  /\ subdomain = << >>
  /\ metricTags = << >>
  /\ slurp = NilSlurp
  /\ i = 0
  /\ rresp = NilResp
  /\ rerr = NilErr
  /\ sent = << >>
  /\ results = << >>
  /\ respBody = << >>
  /\ logs = << >>
  /\ metrics = << >>
  /\ reply = NoReply
  /\ input = << >>
  /\ output = << >>
  /\ errorLog = << >>
  /\ tailer = NoTailer
  /\ pipe = NoPipe

\* What a step of a concurrent call leaves alone apart from the shared
\* transport, the log and the metrics client.
CallFrame ==
  UNCHANGED << pc, inreq, req, subdomain, metricTags, slurp, i, rresp, rerr, sent,
               results, respBody, reply, input, output, errorLog, tailer, pipe >>

\* Sanitize, for the call c.
CallSanitize(c) ==
  LET l == calls[c]
      limited == IF l.req.Body.present /\ conf.EVPProxy.MaxPayloadSize > 0
                   THEN [l.req EXCEPT !.Body =
                           NewLimitedReader(l.req.Body, conf.EVPProxy.MaxPayloadSize)]
                 ELSE l.req
      sub == Get(l.req.Header, "X-Datadog-EVP-Subdomain")
      err == validate(sub, l.req.URL.Path, l.req.URL.RawQuery)
      tags == sanitizedMetricTags(initialMetricTags(l.req), sub)
  IN /\ l.pc = "idle"
     /\ IF err # NilErr
          THEN /\ calls' = [calls EXCEPT ![c] =
                              [l EXCEPT !.subdomain = sub, !.metricTags = tags,
                                        !.req = limited, !.rerr = err,
                                        !.pc = "done"]]
               /\ metrics' = metrics \o deferredMetrics(tags, l.req.ContentLength, err)
        ELSE /\ calls' = [calls EXCEPT ![c] =
                            [l EXCEPT !.subdomain = sub, !.metricTags = tags,
                                      !.req = [limited EXCEPT
                                                 !.Header = rewriteHeader(l.req, conf),
                                                 !.URL.Scheme = https],
                                      !.pc = "sanitized"]]
             /\ UNCHANGED metrics
     /\ UNCHANGED << conf, endpoints, logs >>
     /\ CallFrame

\* SendSingle, for the call c.
CallSendSingle(c) ==
  LET l == calls[c]
      target == setTarget(l.req, l.subdomain, endpoints[1].Host, endpoints[1].APIKey)
  IN /\ l.pc = "sanitized"
     /\ Len(endpoints) = 1
     /\ calls' = [calls EXCEPT ![c] =
                    [l EXCEPT !.req = target,
                              !.sent = Append(l.sent, [req |-> target, idx |-> 0,
                                                       reader |-> 0]),
                              !.pc = "single"]]
     /\ UNCHANGED << conf, endpoints, logs, metrics >>
     /\ CallFrame

\* ReturnSingle, for the call c.
CallReturnSingle(c) ==
  LET l == calls[c]
  IN /\ l.pc = "single"
     /\ \E out \in Outcomes(<< c, Len(l.sent) >>, l.sent[Len(l.sent)].req) :
          /\ calls' = [calls EXCEPT ![c] =
                         [l EXCEPT !.results = Append(l.results, out),
                                   !.respBody = Append(l.respBody,
                                                       [drained |-> 0, closed |-> 0]),
                                   !.rresp = out.resp, !.rerr = out.err,
                                   !.pc = "done"]]
          /\ metrics' = metrics \o deferredMetrics(l.metricTags, l.req.ContentLength,
                                                   out.err)
     /\ UNCHANGED << conf, endpoints, logs >>
     /\ CallFrame

\* Slurp, for the call c.
CallSlurp(c) ==
  LET l == calls[c]
      read == ReadAll(l.req.Body)
  IN /\ l.pc = "sanitized"
     /\ Len(endpoints) # 1
     /\ IF l.req.Body.present /\ read.err # NilErr
          THEN /\ calls' = [calls EXCEPT ![c] =
                              [l EXCEPT !.rerr = read.err, !.pc = "done"]]
               /\ metrics' = metrics \o deferredMetrics(l.metricTags,
                                                        l.req.ContentLength, read.err)
        ELSE /\ calls' = [calls EXCEPT ![c] =
                            [l EXCEPT !.slurp = IF l.req.Body.present
                                                  THEN [isNil |-> FALSE,
                                                        data |-> read.data]
                                                ELSE l.slurp,
                                      !.i = 0, !.pc = "loop"]]
             /\ UNCHANGED metrics
     /\ UNCHANGED << conf, endpoints, logs >>
     /\ CallFrame

\* Send with a subdomain that is kept in the transport, where the calls
\* overwrite it, and not in a local of the call.
CallSendSharedSubdomain(c) ==
  LET l == calls[c]
      endpointDomain == endpointAt(endpoints, l.i)
      cloned == Clone(l.req)
      newreq == IF ~l.slurp.isNil
                  THEN [cloned EXCEPT !.Body = NewReader(l.slurp.data)]
                ELSE cloned
      target == setTarget(newreq, (IF \E o \in CallIds \ { c } : calls[o].subdomain # << >>
                             THEN calls[CHOOSE o \in CallIds \ { c } :
                                          calls[o].subdomain # << >>].subdomain
                           ELSE l.subdomain), endpointDomain.Host,
                          endpointDomain.APIKey)
  IN /\ l.pc = "loop"
     /\ ~loopDone(endpoints, l.i)
     /\ calls' = [calls EXCEPT ![c] =
                    [l EXCEPT !.sent = Append(l.sent,
                                              [req |-> target, idx |-> l.i,
                                               reader |-> readerOf(l.i, l.slurp)]),
                              !.pc = "wait"]]
     /\ UNCHANGED << conf, endpoints, logs, metrics >>
     /\ CallFrame

\* Send, for the call c.
CallSend(c) ==
  LET l == calls[c]
      endpointDomain == endpointAt(endpoints, l.i)
      cloned == Clone(l.req)
      newreq == IF ~l.slurp.isNil
                  THEN [cloned EXCEPT !.Body = NewReader(l.slurp.data)]
                ELSE cloned
      target == setTarget(newreq, l.subdomain, endpointDomain.Host,
                          endpointDomain.APIKey)
  IN /\ l.pc = "loop"
     /\ ~loopDone(endpoints, l.i)
     /\ calls' = [calls EXCEPT ![c] =
                    [l EXCEPT !.sent = Append(l.sent,
                                              [req |-> target, idx |-> l.i,
                                               reader |-> readerOf(l.i, l.slurp)]),
                              !.pc = "wait"]]
     /\ UNCHANGED << conf, endpoints, logs, metrics >>
     /\ CallFrame

\* Receive, for the call c.
CallReceive(c) ==
  LET l == calls[c]
  IN /\ l.pc = "wait"
     /\ \E out \in Outcomes(<< c, Len(l.sent) >>, l.sent[Len(l.sent)].req) :
          LET h == handleResult(l.i, out, l.rresp, l.rerr)
          IN /\ calls' = [calls EXCEPT ![c] =
                            [l EXCEPT !.results = Append(l.results, out),
                                      !.rresp = h.rresp, !.rerr = h.rerr,
                                      !.respBody = Append(l.respBody, h.body),
                                      !.i = l.i + 1, !.pc = "loop"]]
             /\ logs' = logs \o h.logged
     /\ UNCHANGED << conf, endpoints, metrics >>
     /\ CallFrame

\* Return, for the call c.
CallReturn(c) ==
  LET l == calls[c]
  IN /\ l.pc = "loop"
     /\ loopDone(endpoints, l.i)
     /\ calls' = [calls EXCEPT ![c] = [l EXCEPT !.pc = "done"]]
     /\ metrics' = metrics \o deferredMetrics(l.metricTags, l.req.ContentLength,
                                              l.rerr)
     /\ UNCHANGED << conf, endpoints, logs >>
     /\ CallFrame

ConcurrentNext ==
  \E c \in CallIds :
    \/ CallSanitize(c)
    \/ CallSendSingle(c)
    \/ CallReturnSingle(c)
    \/ CallSlurp(c)
    \/ CallSend(c)
    \/ CallReceive(c)
    \/ CallReturn(c)

ConcurrentSpec == ConcurrentInit /\ [][ConcurrentNext]_vars

\* ------------------------------------------- the functions on their own
\* No request is being handled: the state of the proxy while one of its
\* functions is applied on its own; what identifies the function.
Quiescent(what) ==
  /\ conf = CHOOSE c \in Confs : c.EVPProxy.AdditionalEndpoints = << >>
  /\ endpoints = << >>
  /\ pc = what
  /\ inreq = CHOOSE r \in Requests : r.Header = Director(EmptyHeader) /\ r.Body = NoBody
  /\ req = inreq
  /\ subdomain = << >>
  /\ metricTags = << >>
  /\ slurp = NilSlurp
  /\ i = 0
  /\ rresp = NilResp
  /\ rerr = NilErr
  /\ sent = << >>
  /\ results = << >>
  /\ respBody = << >>
  /\ logs = << >>
  /\ metrics = << >>
  /\ reply = NoReply
  /\ errorLog = << >>
  /\ calls = << >>

\* The strings the validators are applied to: every string of at most one
\* printable character, and the longer strings over characters at and next
\* to the borders of the accepted ranges.
SampleChars ==
  { "a", "z", "A", "Z", "0", "9", "_", "-", ".", "/", "+", "@", "?", "\"", " ",
    "%", "grave", "[", "{", ":" }
ValidatorInputs ==
  { << >> } \cup { << Ascii[k] >> : k \in 1..Len(Ascii) }
    \cup UNION { [1..n -> SampleChars] : n \in 2..MaxStrLen }

ValidatorInit ==
  /\ Quiescent("validators")
  /\ tailer = NoTailer
  /\ pipe = NoPipe
  /\ input \in ValidatorInputs
  /\ output = << >>

\* The three validators are applied to the input.
ApplyValidators ==
  /\ pc = "validators"
  /\ output = << >>
  /\ output' = << [subdomain |-> isValidSubdomain(input),
                   path |-> isValidPath(input),
                   query |-> isValidQueryString(input)] >>
  /\ UNCHANGED << conf, endpoints, pc, inreq, req, subdomain, metricTags, slurp,
                  i, rresp, rerr, sent, results, respBody, logs, metrics, reply,
                  input, errorLog, calls, tailer, pipe >>

ValidatorNext == ApplyValidators

ValidatorSpec == ValidatorInit /\ [][ValidatorNext]_vars

\* The configurations evpProxyEndpointsFromConfig is applied to: any of the
\* additional hosts and the site itself may be an additional host, with 0 to
\* MaxAdditional credentials each, which may repeat and may be the
\* baseline credential.
ResolverKeys == { KeyList(1)[1], BaselineAPIKey }
ResolverHosts == AdditionalHosts \cup { Site }
ResolverKeyLists == UNION { [1..n -> ResolverKeys] : n \in 0..MaxAdditional }
ResolverConfs ==
  { [Site |-> Site, APIKey |-> BaselineAPIKey, Hostname |-> Hostname,
     DefaultEnv |-> DefaultEnv, ContainerTags |-> ContainerTags,
     EVPProxy |-> [Enabled |-> TRUE, APIKey |-> ov[1], DDURL |-> ov[2],
                   AdditionalEndpoints |-> m, MaxPayloadSize |-> 0]] :
      ov \in { << >>, OverrideAPIKey } \X { << >>, OverrideDDURL },
      m \in UNION { [H -> ResolverKeyLists] : H \in SUBSET ResolverHosts } }

ResolverInit ==
  /\ Quiescent("resolver")
  /\ tailer = NoTailer
  /\ pipe = NoPipe
  /\ input \in ResolverConfs
  /\ output = << >>

\* One call of evpProxyEndpointsFromConfig on the configuration; the
\* configuration is resolved twice.
Resolve ==
  /\ pc = "resolver"
  /\ Len(output) < 2
  /\ \E order \in MapOrders(input.EVPProxy.AdditionalEndpoints) :
       output' = Append(output, evpProxyEndpointsFromConfig(input, order))
  /\ UNCHANGED << conf, endpoints, pc, inreq, req, subdomain, metricTags, slurp,
                  i, rresp, rerr, sent, results, respBody, logs, metrics, reply,
                  input, errorLog, calls, tailer, pipe >>

ResolverNext == Resolve

ResolverSpec == ResolverInit /\ [][ResolverNext]_vars

\* ----------------------------------------------------------- ParseFilePath
TypeUnknown == 0
TypeDatadog == 1

\* The names of pbgo.Product_value.
Product_value == { << "A", "P", "M", "_", "S", "A", "M", "P", "L", "I", "N", "G" >>, << "T", "E", "S", "T", "I", "N", "G", "1" >> }

\* FileMeta{}
ZeroFileMeta ==
  [Type |-> TypeUnknown, OrgID |-> << "0" >>, Product |-> << >>,
   ConfigID |-> << >>, Name |-> << >>]

\* \d of the regular expression: an ASCII digit.
IsDigit(c) == Ord(c) >= Ord("0") /\ Ord(c) <= Ord("9")

\* [^/] of the regular expression.
NotSlash(c) == c # "/"

\* Where the longest run of characters of the class (digits when digit is
\* TRUE, characters other than '/' otherwise) that starts at pos ends: the
\* position after it.
RECURSIVE RunEnd(_, _, _)
RunEnd(s, pos, digit) ==
  IF pos <= Len(s) /\ (IF digit THEN IsDigit(s[pos]) ELSE NotSlash(s[pos]))
    THEN RunEnd(s, pos + 1, digit)
  ELSE pos

\* The groups of the expression matched from pos on, group n being the
\* first of them: each group is a run of at least one character of its
\* class, the groups are separated by '/', and after the last group the
\* string ends when anchored is TRUE.  << >> when there is no match.  A
\* shorter run never matches where the longest does not, since the next
\* character of the expression is not of the class of the run.
RECURSIVE MatchGroups(_, _, _, _)
MatchGroups(s, pos, n, anchored) ==
  LET end == RunEnd(s, pos, n = 2)
      group == SubSeq(s, pos, end - 1)
  IN IF end = pos THEN << >>
     ELSE IF n = 5
       THEN (IF anchored /\ end <= Len(s) THEN << >> ELSE << group >>)
     ELSE IF end > Len(s) \/ s[end] # "/" THEN << >>
     ELSE LET rest == MatchGroups(s, end + 1, n + 1, anchored)
          IN IF rest = << >> THEN << >> ELSE << group >> \o rest

\* FindStringSubmatch of an expression without the '$' at its end.
FindStringSubmatchUnanchored(path) ==
  LET groups == MatchGroups(path, 1, 1, FALSE)
  IN IF groups = << >> THEN << >> ELSE << path >> \o groups

\* filePathRegexp.FindStringSubmatch(path): the whole match and the five
\* groups, << >> (nil) when the path does not match.
FindStringSubmatch(path) ==
  LET groups == MatchGroups(path, 1, 1, TRUE)
  IN IF groups = << >> THEN << >> ELSE << path >> \o groups

\* A string of digits without its leading zeros ("0" for zero).
RECURSIVE StripZeros(_)
StripZeros(ds) ==
  IF Len(ds) > 1 /\ Head(ds) = "0" THEN StripZeros(Tail(ds)) ELSE ds

\* a <= b for strings of digits of the same length.
RECURSIVE DigitsLeq(_, _)
DigitsLeq(a, b) ==
  IF a = << >> THEN TRUE
  ELSE IF Ord(Head(a)) < Ord(Head(b)) THEN TRUE
  ELSE IF Ord(Head(a)) > Ord(Head(b)) THEN FALSE
  ELSE DigitsLeq(Tail(a), Tail(b))

\* 1<<63 - 1 and 1<<63, the largest values of ParseInt with bitSize 64.
MaxInt64 == << "9", "2", "2", "3", "3", "7", "2", "0", "3", "6", "8", "5", "4", "7", "7", "5", "8", "0", "7" >>
MinInt64Magnitude == << "9", "2", "2", "3", "3", "7", "2", "0", "3", "6", "8", "5", "4", "7", "7", "5", "8", "0", "8" >>

\* strconv.ParseInt(str, 10, 64): an optional sign and digits; the value, as
\* its sign and its digits without leading zeros, or the error.
ParseInt(str) ==
  LET signed == str # << >> /\ Head(str) \in { "+", "-" }
      neg == signed /\ Head(str) = "-"
      ds == IF signed THEN Tail(str) ELSE str
      val == StripZeros(ds)
      max == IF neg THEN MinInt64Magnitude ELSE MaxInt64
  IN IF ds = << >> \/ \E k \in 1..Len(ds) : ~IsDigit(ds[k])
       THEN [val |-> << "0" >>, err |-> Errorf("strconv.ParseInt: invalid syntax", str)]
     ELSE IF Len(val) > Len(max) \/ (Len(val) = Len(max) /\ ~DigitsLeq(val, max))
       THEN [val |-> max, err |-> Errorf("strconv.ParseInt: value out of range", str)]
     ELSE [val |-> (IF neg /\ val # << "0" >> THEN << "-" >> ELSE << >>) \o val,
           err |-> NilErr]

\* ParseFilePath(path): the FileMeta and the error.
ParseFilePath(path) ==
  LET matchedGroups == FindStringSubmatch(path)
  IN IF Len(matchedGroups) # 5 + 1
       THEN [meta |-> ZeroFileMeta,
             err |-> Errorf("config file path has wrong format", path)]
     ELSE LET rawType == matchedGroups[2]
              configType == IF rawType = << "d", "a", "t", "a", "d", "o", "g" >>
                              THEN TypeDatadog ELSE TypeUnknown
              rawOrgID == matchedGroups[3]
              orgID == ParseInt(rawOrgID)
              rawProduct == matchedGroups[4]
          IN IF orgID.err # NilErr
               THEN [meta |-> ZeroFileMeta,
                     err |-> Errorf("could not parse orgID in config file path",
                                    rawOrgID)]
             ELSE IF rawProduct \notin Product_value
               THEN [meta |-> ZeroFileMeta,
                     err |-> Errorf("product is unknwon", rawProduct)]
             ELSE [meta |-> [Type |-> configType, OrgID |-> orgID.val,
                             Product |-> rawProduct,
                             ConfigID |-> matchedGroups[5],
                             Name |-> matchedGroups[6]],
                   err |-> NilErr]

\* The segments the paths are built of.
TypeSegments == { << "d", "a", "t", "a", "d", "o", "g" >>, << "u", "s", "e", "r" >>, << >> }
OrgIDSegments ==
  { << "2" >>, << "0", "0", "7" >>, << "a" >>, << >>, << "-", "5" >>, << "1", "a" >>,
    MaxInt64, MinInt64Magnitude, << "0" >> \o MaxInt64 }
ProductSegments == { << "A", "P", "M", "_", "S", "A", "M", "P", "L", "I", "N", "G" >>, << "T", "E", "S", "T", "I", "N", "G", "1" >>, << "N", "O" >>, << >> }
ConfigIDSegments == { << "i", "d" >>, << >> }
NameSegments == { << "f" >>, << >>, << "f", "/", "o" >>, << "f", "/" >> }

\* The segments joined with '/'.
RECURSIVE Join(_)
Join(segs) ==
  IF Len(segs) = 1 THEN segs[1]
  ELSE segs[1] \o << "/" >> \o Join(Tail(segs))

\* The paths ParseFilePath is applied to: five segments, of which the last
\* may hold a '/', and the paths of fewer segments.
FilePaths ==
  { Join(<< t, o, p, c, n >>) :
      t \in TypeSegments, o \in OrgIDSegments, p \in ProductSegments,
      c \in ConfigIDSegments, n \in NameSegments }
  \cup { Join(<< t, o, p, c >>) :
           t \in TypeSegments, o \in OrgIDSegments, p \in ProductSegments,
           c \in ConfigIDSegments }
  \cup { << >> }

ParserInit ==
  /\ Quiescent("parser")
  /\ tailer = NoTailer
  /\ pipe = NoPipe
  /\ input \in FilePaths
  /\ output = << >>

\* One call of ParseFilePath on the path.
Parse ==
  /\ pc = "parser"
  /\ output = << >>
  /\ output' = << ParseFilePath(input) >>
  /\ UNCHANGED << conf, endpoints, pc, inreq, req, subdomain, metricTags, slurp,
                  i, rresp, rerr, sent, results, respBody, logs, metrics, reply,
                  input, errorLog, calls, tailer, pipe >>

ParserNext == Parse

ParserSpec == ParserInit /\ [][ParserNext]_vars

\* ------------------------------------------------------------ the handler
\* evpProxyHandler that returns the forwarder whatever the configuration.
evpProxyHandlerAlwaysForwards(c) == "forwarder"

\* Which handler evpProxyHandler returns for the configuration.
evpProxyHandler(c) ==
  IF ~c.EVPProxy.Enabled THEN "error" ELSE "forwarder"

\* What the handler of evpProxyErrorHandler(message) writes: http.Error with
\* the formatted message and http.StatusMethodNotAllowed.
evpProxyErrorHandler(message) ==
  [StatusCode |-> 405, Body |-> << "EVPProxy is disabled: ", message, "\n" >>]

\* The configurations of the handler: every configuration with the proxy
\* disabled, and with the proxy enabled those without overrides and without
\* a limit on the body.
HandlerConfs ==
  { [c EXCEPT !.EVPProxy.Enabled = FALSE] : c \in Confs } \cup
  { c \in Confs : /\ c.EVPProxy.APIKey = << >>
                  /\ c.EVPProxy.DDURL = << >>
                  /\ c.EVPProxy.MaxPayloadSize = 0 }

\* The endpoints are resolved only when the forwarder is built.
HandlerInit ==
  /\ conf \in HandlerConfs
  /\ IF conf.EVPProxy.Enabled
       THEN \E order \in MapOrders(conf.EVPProxy.AdditionalEndpoints) :
              endpoints = evpProxyEndpointsFromConfig(conf, order)
     ELSE endpoints = << >>
  /\ InitRequest

\* The handler returned for a disabled proxy answers the request.
ServeDisabled ==
  /\ pc = "idle"
  /\ evpProxyHandler(conf) = "error"
  /\ reply' = evpProxyErrorHandler("Has been disabled in config")
  /\ pc' = "replied"
  /\ UNCHANGED << conf, endpoints, inreq, req, subdomain, metricTags, slurp, i,
                  rresp, rerr, sent, results, respBody, logs, metrics, input,
                  output, errorLog, calls, tailer, pipe >>

\* The forwarder hands the request to RoundTrip.
ServeForwarder ==
  /\ evpProxyHandler(conf) = "forwarder"
  /\ Next

HandlerNext ==
  \/ ServeDisabled
  \/ ServeForwarder

HandlerSpec == HandlerInit /\ [][HandlerNext]_vars

\* ------------------------------------------------- the DockerSocketTailer
\* Durations are counted in seconds.
backoffInitialDuration == 1
backoffMaxDuration == 60

\* How many times an inner tailer reports an error on erroredContainerID.
MaxInnerErrors == 2

\* NewDockerSocketTailer: ctx, cancel and stopped are not set; no goroutine
\* runs; nobody has called Stop.
\*   ctx                 "nil", "live" or "done"
\*   cancel              "nil" or "set"
\*   stopped             "nil", "open" or "closed"; closes counts close(t.stopped)
\*   run                 where the run goroutine is: "none", "start" (about to
\*                       call tryStartTailer), "select", "returned"
\*   backoffDuration, inner, erroredContainerID, backoffTimerC
\*                       the locals of run; inner is 0 (nil) or the number of
\*                       the tailer in inners; a channel is "nil", "empty"
\*                       (nothing to receive) or "ready"; timer is the duration
\*                       given to time.After
\*   stop                where the caller of Stop is: "idle", "waiting" (at
\*                       <-t.stopped), "returned"
\*   inners              every inner tailer that inner.Start started
\*   attempts            every return of tryStartTailer: whether it succeeded,
\*                       backoffDuration at that time, and the time.After
\*                       duration waited since the attempt before it
\*   waited              the time.After duration waited since the last attempt
NewDockerSocketTailer ==
  [ctx |-> "nil", cancel |-> "nil", stopped |-> "nil", closes |-> 0,
   run |-> "none", backoffDuration |-> 0, inner |-> 0,
   erroredContainerID |-> "nil", backoffTimerC |-> "nil", timer |-> 0,
   stop |-> "idle", inners |-> << >>, attempts |-> << >>, waited |-> 0]

TailerInit ==
  /\ Quiescent("tailer")
  /\ input = << >>
  /\ output = << >>
  /\ pipe = NoPipe
  /\ tailer = NewDockerSocketTailer

TailerFrame ==
  UNCHANGED << conf, endpoints, pc, inreq, req, subdomain, metricTags, slurp, i,
               rresp, rerr, sent, results, respBody, logs, metrics, reply, input,
               output, errorLog, calls, pipe >>

\* stopTailer on the tailer k of a list of inner tailers: inner.Stop().
stopTailer(inners, k) ==
  [inners EXCEPT ![k] = [running |-> FALSE, stops |-> @.stops + 1]]

\* The attempt that returns now, as attempts records it.
Attempt(ok) ==
  [ok |-> ok, backoff |-> tailer.backoffDuration, waited |-> tailer.waited]

\* Start: the context and the stopped channel are made and run is started;
\* run sets backoffDuration before its loop.
Start ==
  /\ pc = "tailer"
  /\ tailer.ctx = "nil"
  /\ tailer' = [tailer EXCEPT !.ctx = "live", !.cancel = "set",
                              !.stopped = "open", !.run = "start",
                              !.backoffDuration = backoffInitialDuration]
  /\ TailerFrame

\* tryStartTailer returns an inner tailer that inner.Start started: no timer,
\* and the backoff is reset.
TryStartSucceeds ==
  /\ pc = "tailer"
  /\ tailer.run = "start"
  /\ tailer' = [tailer EXCEPT
                  !.inners = Append(@, [running |-> TRUE, stops |-> 0]),
                  !.inner = Len(tailer.inners) + 1,
                  !.erroredContainerID = "empty",
                  !.backoffTimerC = "nil",
                  !.timer = 0,
                  !.backoffDuration = backoffInitialDuration,
                  !.attempts = Append(@, Attempt(TRUE)),
                  !.waited = 0,
                  !.run = "select"]
  /\ TailerFrame

\* The failed start of the mutant of C32: the loop gives up as soon as the
\* doubled backoff would exceed the maximum.
TryStartFailsGivesUpEarly ==
  /\ pc = "tailer"
  /\ tailer.run = "start"
  /\ IF tailer.backoffDuration * 2 > backoffMaxDuration
       THEN tailer' = [tailer EXCEPT
                         !.attempts = Append(@, Attempt(FALSE)),
                         !.waited = 0,
                         !.stopped = "closed",
                         !.closes = @ + 1,
                         !.run = "returned"]
     ELSE tailer' = [tailer EXCEPT
                       !.inner = 0,
                       !.erroredContainerID = "nil",
                       !.backoffTimerC = "armed",
                       !.timer = tailer.backoffDuration,
                       !.backoffDuration = @ * 2,
                       !.attempts = Append(@, Attempt(FALSE)),
                       !.waited = 0,
                       !.run = "select"]
  /\ TailerFrame

\* tryStartTailer returns an error (inner and erroredContainerID are nil).
\* With the backoff over the maximum run returns, and its deferred
\* close(t.stopped) runs; otherwise the timer is set to the backoff and the
\* backoff is doubled.
TryStartFails ==
  /\ pc = "tailer"
  /\ tailer.run = "start"
  /\ IF tailer.backoffDuration > backoffMaxDuration
       THEN tailer' = [tailer EXCEPT
                         !.attempts = Append(@, Attempt(FALSE)),
                         !.waited = 0,
                         !.stopped = "closed",
                         !.closes = @ + 1,
                         !.run = "returned"]
     ELSE tailer' = [tailer EXCEPT
                       !.inner = 0,
                       !.erroredContainerID = "nil",
                       !.backoffTimerC = "armed",
                       !.timer = tailer.backoffDuration,
                       !.backoffDuration = @ * 2,
                       !.attempts = Append(@, Attempt(FALSE)),
                       !.waited = 0,
                       !.run = "select"]
  /\ TailerFrame

\* The duration given to time.After has passed: the timer's channel can be
\* received from.
TimerFires ==
  /\ pc = "tailer"
  /\ tailer.backoffTimerC = "armed"
  /\ tailer' = [tailer EXCEPT !.backoffTimerC = "fired"]
  /\ TailerFrame

\* The running inner tailer hits an error and sends its container ID on
\* erroredContainerID; the send waits for run to receive.
InnerReportsError ==
  /\ pc = "tailer"
  /\ tailer.inner # 0
  /\ tailer.erroredContainerID = "empty"
  /\ Len(tailer.inners) <= MaxInnerErrors
  /\ tailer' = [tailer EXCEPT !.erroredContainerID = "ready"]
  /\ TailerFrame

\* The ctx.Done() case of the mutant of C31: run returns without stopTailer.
SelectDoneLeavesInner ==
  /\ pc = "tailer"
  /\ tailer.run = "select"
  /\ tailer.ctx = "done"
  /\ tailer' = [tailer EXCEPT
                  !.stopped = "closed",
                  !.closes = @ + 1,
                  !.run = "returned"]
  /\ TailerFrame

\* case <-t.ctx.Done(): the inner tailer, if there is one, is stopped and run
\* returns; its deferred close(t.stopped) runs.
SelectDone ==
  /\ pc = "tailer"
  /\ tailer.run = "select"
  /\ tailer.ctx = "done"
  /\ tailer' = [tailer EXCEPT
                  !.inners = IF tailer.inner # 0
                               THEN stopTailer(@, tailer.inner) ELSE @,
                  !.stopped = "closed",
                  !.closes = @ + 1,
                  !.run = "returned"]
  /\ TailerFrame

\* The erroredContainerID case of the mutant of C33: the loop retries and
\* leaves the inner tailer as it is.
SelectErroredKeepsInner ==
  /\ pc = "tailer"
  /\ tailer.run = "select"
  /\ tailer.erroredContainerID = "ready"
  /\ tailer' = [tailer EXCEPT
                  !.inner = 0,
                  !.erroredContainerID = "nil",
                  !.backoffTimerC = "nil",
                  !.timer = 0,
                  !.run = "start"]
  /\ TailerFrame

\* case <-erroredContainerID: the inner tailer is stopped and the loop
\* continues with the next start attempt.
SelectErrored ==
  /\ pc = "tailer"
  /\ tailer.run = "select"
  /\ tailer.erroredContainerID = "ready"
  /\ tailer' = [tailer EXCEPT
                  !.inners = IF tailer.inner # 0
                               THEN stopTailer(@, tailer.inner) ELSE @,
                  !.inner = 0,
                  !.erroredContainerID = "nil",
                  !.backoffTimerC = "nil",
                  !.timer = 0,
                  !.run = "start"]
  /\ TailerFrame

\* case <-backoffTimerC: the loop continues with the next start attempt.
SelectTimer ==
  /\ pc = "tailer"
  /\ tailer.run = "select"
  /\ tailer.backoffTimerC = "fired"
  /\ tailer' = [tailer EXCEPT
                  !.waited = tailer.timer,
                  !.inner = 0,
                  !.erroredContainerID = "nil",
                  !.backoffTimerC = "nil",
                  !.timer = 0,
                  !.run = "start"]
  /\ TailerFrame

\* Stop, up to its receive: t.cancel() and t.cancel = nil. Stop is called
\* once, after Start.
StopCancel ==
  /\ pc = "tailer"
  /\ tailer.stop = "idle"
  /\ tailer.cancel = "set"
  /\ tailer' = [tailer EXCEPT !.ctx = "done", !.cancel = "nil",
                              !.stop = "waiting"]
  /\ TailerFrame

\* <-t.stopped in Stop: the receive returns once the channel is closed.
StopReturn ==
  /\ pc = "tailer"
  /\ tailer.stop = "waiting"
  /\ tailer.stopped = "closed"
  /\ tailer' = [tailer EXCEPT !.stop = "returned"]
  /\ TailerFrame

TailerNext ==
  \/ Start
  \/ TryStartSucceeds
  \/ TryStartFails
  \/ TimerFires
  \/ InnerReportsError
  \/ SelectDone
  \/ SelectErrored
  \/ SelectTimer
  \/ StopCancel
  \/ StopReturn

TailerSpec == TailerInit /\ [][TailerNext]_vars

\* Every call of tryStartTailer returns; a select with a case that can
\* proceed takes one, and among the cases that can proceed the choice is
\* random, so that a case that can proceed again and again is taken; a
\* receive from a closed channel returns.
TailerFairSpec ==
  /\ TailerSpec
  /\ WF_vars(TryStartSucceeds \/ TryStartFails)
  /\ SF_vars(SelectDone)
  /\ WF_vars(StopReturn)

\* ------------------------------------------------------------ the TracePipe
\* How many lines the trace pipe delivers.
MaxLines == 3

\* NewTracePipe: the file is open and t.stop is made; Channel and Close have
\* not been called.
\*   file, stop      "open" or "closed"
\*   lines           the lines the file still has to deliver
\*   goroutine       where the goroutine of Channel is: "none", "select",
\*                   "ReadLine", at the send "channelErrors" or
\*                   "channelEvents", "returned"
\*   close           where the caller of Close is: "idle", "file" (t.stop is
\*                   closed, t.file.Close() is next), "returned"
\*   events, errors  how many values were received from channelEvents and
\*                   from channelErrors
NewTracePipe(n) ==
  [file |-> "open", stop |-> "open", lines |-> n, goroutine |-> "none",
   close |-> "idle", events |-> 0, errors |-> 0]

PipeInit ==
  /\ Quiescent("pipe")
  /\ input = << >>
  /\ output = << >>
  /\ tailer = NoTailer
  /\ \E n \in 0..MaxLines : pipe = NewTracePipe(n)

PipeFrame ==
  UNCHANGED << conf, endpoints, pc, inreq, req, subdomain, metricTags, slurp, i,
               rresp, rerr, sent, results, respBody, logs, metrics, reply, input,
               output, errorLog, calls, tailer >>

\* Channel: the two unbuffered channels are made and the goroutine starts.
Channel ==
  /\ pc = "pipe"
  /\ pipe.goroutine = "none"
  /\ pipe' = [pipe EXCEPT !.goroutine = "select"]
  /\ PipeFrame

\* The select of the goroutine: with t.stop closed the goroutine returns,
\* otherwise the default case is taken and ReadLine is next.
SelectStop ==
  /\ pc = "pipe"
  /\ pipe.goroutine = "select"
  /\ pipe' = [pipe EXCEPT !.goroutine = IF pipe.stop = "closed"
                                          THEN "returned" ELSE "ReadLine"]
  /\ PipeFrame

\* What ReadLine can return: a line of the file, as an event or as the error
\* of parseTraceLine; io.EOF from the open file; the error of a read from
\* the closed file.
ReadLineOutcomes ==
  (IF pipe.lines > 0 THEN { "event", "unexpected input" } ELSE {})
    \cup (IF pipe.file = "open" THEN { "EOF" } ELSE { "file already closed" })

\* t.ReadLine() returns: on io.EOF the loop continues, another error goes to
\* channelErrors, an event to channelEvents.
ReadLine ==
  /\ pc = "pipe"
  /\ pipe.goroutine = "ReadLine"
  /\ \E out \in ReadLineOutcomes :
       pipe' = [pipe EXCEPT
                  !.lines = IF out \in { "event", "unexpected input" }
                              THEN @ - 1 ELSE @,
                  !.goroutine = CASE out = "EOF" -> "select"
                                  [] out = "event" -> "channelEvents"
                                  [] OTHER -> "channelErrors"]
  /\ PipeFrame

\* channelEvents <- traceEvent: the send completes when a receiver takes the
\* event.
ReceiveEvent ==
  /\ pc = "pipe"
  /\ pipe.goroutine = "channelEvents"
  /\ pipe' = [pipe EXCEPT !.events = @ + 1, !.goroutine = "select"]
  /\ PipeFrame

\* channelErrors <- err: the send completes when a receiver takes the error.
ReceiveError ==
  /\ pc = "pipe"
  /\ pipe.goroutine = "channelErrors"
  /\ pipe' = [pipe EXCEPT !.errors = @ + 1, !.goroutine = "select"]
  /\ PipeFrame

\* Close, its first statement: close(t.stop). Close is called once.
CloseStop ==
  /\ pc = "pipe"
  /\ pipe.close = "idle"
  /\ pipe' = [pipe EXCEPT !.stop = "closed", !.close = "file"]
  /\ PipeFrame

\* Close, its second statement: t.file.Close().
CloseFile ==
  /\ pc = "pipe"
  /\ pipe.close = "file"
  /\ pipe' = [pipe EXCEPT !.file = "closed", !.close = "returned"]
  /\ PipeFrame

PipeNext ==
  \/ Channel
  \/ SelectStop
  \/ ReadLine
  \/ ReceiveEvent
  \/ ReceiveError
  \/ CloseStop
  \/ CloseFile

PipeSpec == PipeInit /\ [][PipeNext]_vars

\* The goroutine is scheduled: it takes its select and its ReadLine returns.
\* Close, once called, runs to its end. A send on an unbuffered channel
\* completes only with a receiver, and nobody has to receive.
PipeFairSpec ==
  /\ PipeSpec
  /\ WF_vars(SelectStop)
  /\ WF_vars(ReadLine)
  /\ WF_vars(CloseFile)

\* ------------------------------------------------------------------ claims
\* The subdomain RoundTrip reads from the request it received.
InSubdomain == Get(inreq.Header, "X-Datadog-EVP-Subdomain")

\* The request RoundTrip received fails the validation of its subdomain, its
\* path or its query string.
ValidationFails ==
  \/ Len(InSubdomain) = 0
  \/ ~isValidSubdomain(InSubdomain)
  \/ ~isValidPath(inreq.URL.Path)
  \/ ~isValidQueryString(inreq.URL.RawQuery)

\* The body of the request can be read to its end.
BodyReadable == ~req.Body.present \/ ReadErr(req.Body) = NilErr

\* The call has returned after a fan-out to more than one endpoint.
FanOutDone ==
  /\ pc = "done"
  /\ Len(endpoints) > 1
  /\ ~ValidationFails
  /\ BodyReadable

\* The host RoundTrip targets for the endpoint e.
TargetHost(e) == InSubdomain \o << "." >> \o e.Host

\* C1: when a call with more than one endpoint has passed the validation and
\* read its body, the response and the error it returns are the ones the
\* transport returned for the send to endpoints[0], the first send, whatever
\* the sends to the other endpoints returned.
C1_PrimaryResultReturned ==
  FanOutDone =>
    /\ Len(results) >= 1
    /\ sent[1].idx = 0
    /\ sent[1].req.Host = TargetHost(endpoints[1])
    /\ rresp = results[1].resp
    /\ rerr = results[1].err

\* A fan-out in which the primary succeeded and a secondary failed.
C1_Witness ==
  /\ FanOutDone
  /\ results[1].err = NilErr
  /\ results[2].err # NilErr
  /\ rresp.StatusCode = 200

\* C2: when the subdomain, the path or the query string fails the validation
\* the transport is never invoked, the headers, the scheme and the host of
\* the request are the ones it came with, and the call returns an error.
C2_RejectedBeforeAnyEffect ==
  ValidationFails =>
    /\ sent = << >>
    /\ req.Header = inreq.Header
    /\ req.URL.Scheme = inreq.URL.Scheme
    /\ req.URL.Host = inreq.URL.Host
    /\ req.Host = inreq.Host
    /\ pc \in {"idle", "done"}
    /\ pc = "done" => (rerr # NilErr /\ rresp = NilResp)

\* A call that was rejected for its query string alone, the last check.
C2_Witness ==
  /\ pc = "done"
  /\ Len(InSubdomain) > 0
  /\ isValidSubdomain(InSubdomain)
  /\ isValidPath(inreq.URL.Path)
  /\ ~isValidQueryString(inreq.URL.RawQuery)
  /\ rerr.msg = "EVPProxy: invalid query string: "

\* The errors the transport returned for the secondary endpoints, in order.
RECURSIVE SecondaryErrors(_)
SecondaryErrors(k) ==
  IF k > Len(results) THEN << >>
  ELSE (IF results[k].err # NilErr THEN << results[k].err >> ELSE << >>)
         \o SecondaryErrors(k + 1)

\* The request_error counter was emitted.
ErrorCounted ==
  \E k \in 1..Len(metrics) :
    metrics[k].name = "datadog.trace_agent.evp_proxy.request_error"

\* C3: a transport failure on a secondary endpoint is logged and has no
\* other effect: after a fan-out every endpoint was sent to once (no retry,
\* no secondary skipped), the logged errors are the errors of the
\* secondaries, and the returned error and the request_error counter depend
\* on the primary alone.
C3_SecondaryFailureOnlyLogged ==
  FanOutDone =>
    /\ Len(sent) = Len(endpoints)
    /\ Len(results) = Len(endpoints)
    /\ \A k \in 1..Len(sent) : sent[k].idx = k - 1
    /\ logs = SecondaryErrors(2)
    /\ rerr = results[1].err
    /\ ErrorCounted <=> results[1].err # NilErr

\* A fan-out to three endpoints in which only the second one failed.
C3_Witness ==
  /\ FanOutDone
  /\ Len(endpoints) = 3
  /\ results[1].err = NilErr
  /\ results[2].err # NilErr
  /\ results[3].err = NilErr
  /\ logs = << results[2].err >>
  /\ rerr = NilErr
  /\ ~ErrorCounted

\* C4: a failure of the primary send does not stop the fan-out: no secondary
\* is sent to before the primary has returned, and when the call returns
\* after a failed primary every secondary was sent to exactly once and the
\* primary's error is returned.
C4_PrimaryFailureDoesNotStopFanOut ==
  /\ Len(sent) >= 2 => Len(results) >= 1
  /\ (pc = "done" /\ Len(endpoints) > 1 /\ Len(results) >= 1
        /\ results[1].err # NilErr) =>
       /\ \A e \in 2..Len(endpoints) :
            Cardinality({ k \in 2..Len(sent) : sent[k].idx = e - 1 }) = 1
       /\ \A k \in 2..Len(sent) :
            sent[k].req.Host = TargetHost(endpoints[sent[k].idx + 1])
       /\ rerr = results[1].err
       /\ rresp = NilResp

\* A fan-out whose primary failed and whose secondaries were all answered.
C4_Witness ==
  /\ FanOutDone
  /\ Len(endpoints) = 3
  /\ results[1].err = ErrRefused
  /\ results[2].err = NilErr
  /\ results[3].err = NilErr
  /\ rerr = ErrRefused

\* C5: the endpoints are contacted in the order of the endpoint list and one
\* at a time: the k-th send targets the k-th endpoint, at most one send is
\* in flight, and when a send starts every earlier send has returned and the
\* response of an answered secondary has been drained and closed.
C5_SequentialInOrder ==
  /\ Len(sent) - Len(results) \in {0, 1}
  /\ \A k \in 1..Len(sent) :
       /\ sent[k].idx = k - 1
       /\ sent[k].req.Host = TargetHost(endpoints[k])
       /\ Get(sent[k].req.Header, "DD-API-KEY") = endpoints[k].APIKey
  /\ \A k \in 1..(Len(sent) - 1) :
       /\ k <= Len(results)
       /\ (k > 1 /\ results[k].err = NilErr) =>
            (respBody[k].drained = 1 /\ respBody[k].closed = 1)

\* The third send of a fan-out over two hosts is in flight after an answered
\* second one.
C5_Witness ==
  /\ pc = "wait"
  /\ Len(sent) = 3
  /\ Len(results) = 2
  /\ results[2].err = NilErr
  /\ endpoints[2].Host # endpoints[3].Host

\* C6: the transport is invoked once per endpoint in a call that passes the
\* validation (and, with several endpoints, reads its body): never more
\* than once for an endpoint at any time, and exactly once for each when
\* the call has returned, whether the sends succeeded or failed.
C6_OneSendPerEndpoint ==
  /\ \A e \in 1..Len(endpoints) :
       Cardinality({ k \in 1..Len(sent) : sent[k].idx = e - 1 }) <= 1
  /\ Len(sent) <= Len(endpoints)
  /\ (pc = "done" /\ ~ValidationFails /\ (Len(endpoints) = 1 \/ BodyReadable)) =>
       /\ Len(sent) = Len(endpoints)
       /\ Len(results) = Len(sent)
       /\ \A e \in 1..Len(endpoints) :
            Cardinality({ k \in 1..Len(sent) : sent[k].idx = e - 1 }) = 1

\* A fan-out to three endpoints in which every send failed.
C6_Witness ==
  /\ FanOutDone
  /\ Len(endpoints) = 3
  /\ Len(sent) = 3
  /\ \A k \in 1..3 : results[k].err # NilErr

\* C7: every request handed to the transport for an endpoint has the scheme
\* https, the endpoint's host prefixed by the subdomain as Host and URL.Host,
\* and the endpoint's API key as the single value of DD-API-KEY.
C7_TargetOfEachSend ==
  \A k \in 1..Len(sent) :
    LET r == sent[k].req
        e == endpoints[sent[k].idx + 1]
    IN /\ r.URL.Scheme = https
       /\ r.Host = InSubdomain \o << "." >> \o e.Host
       /\ r.URL.Host = InSubdomain \o << "." >> \o e.Host
       /\ "DD-API-KEY" \in DOMAIN r.Header
       /\ r.Header["DD-API-KEY"] = << e.APIKey >>

\* Two sends of one fan-out with different hosts and different API keys.
C7_Witness ==
  /\ Len(sent) >= 2
  /\ sent[1].req.Host # sent[2].req.Host
  /\ sent[1].req.Header["DD-API-KEY"] # sent[2].req.Header["DD-API-KEY"]
  /\ sent[2].req.Host = InSubdomain \o << "." >> \o endpoints[2].Host

\* The names of the headers RoundTrip sets.
OutboundHeaderNames ==
  { "Via", "Content-Type", "User-Agent", "X-Datadog-Container-Tags",
    "X-Datadog-Hostname", "X-Datadog-AgentDefaultEnv", "DD-API-KEY" }

\* C8: the names of the headers of every request handed to the transport are
\* among Via, Content-Type, User-Agent, X-Datadog-Container-Tags,
\* X-Datadog-Hostname, X-Datadog-AgentDefaultEnv and DD-API-KEY, and no inbound
\* DD-API-KEY value is sent on.
C8_OnlyKnownHeaders ==
  \A k \in 1..Len(sent) :
    /\ DOMAIN sent[k].req.Header \subseteq OutboundHeaderNames
    /\ "DD-API-KEY" \in DOMAIN inreq.Header =>
         Get(sent[k].req.Header, "DD-API-KEY") # Get(inreq.Header, "DD-API-KEY")

\* A request with an unrecognized header and an API key of its own was sent
\* on.
C8_Witness ==
  /\ Len(sent) >= 1
  /\ "Unexpected-Header" \in DOMAIN inreq.Header
  /\ "DD-API-KEY" \in DOMAIN inreq.Header
  /\ "X-Forwarded-For" \in DOMAIN inreq.Header

RECURSIVE SegmentEnd(_, _)
SegmentEnd(path, k) ==
  IF k > Len(path) \/ path[k] = "/" THEN k ELSE SegmentEnd(path, k + 1)
FirstSegment(path) == SubSeq(path, 2, SegmentEnd(path, 2) - 1)
AfterFirstSegment(path) == SubSeq(path, SegmentEnd(path, 2), Len(path))

\* C10: the subdomain is the first segment of the inbound path and the
\* outbound path is what follows that segment: every request handed to the
\* transport has the first segment of the inbound path as the subdomain of
\* its host and the remainder of the inbound path as its path.
C10_SubdomainFromPath ==
  \A k \in 1..Len(sent) :
    /\ sent[k].req.Host =
         FirstSegment(inreq.URL.Path) \o << "." >> \o endpoints[sent[k].idx + 1].Host
    /\ sent[k].req.URL.Path = AfterFirstSegment(inreq.URL.Path)

\* The ASCII letters and the ASCII digits.
Letters ==
  { "a", "b", "c", "d", "e", "f", "g", "h", "i", "j", "k", "l", "m", "n", "o",
    "p", "q", "r", "s", "t", "u", "v", "w", "x", "y", "z", "A", "B", "C", "D",
    "E", "F", "G", "H", "I", "J", "K", "L", "M", "N", "O", "P", "Q", "R", "S",
    "T", "U", "V", "W", "X", "Y", "Z" }
Digits == { "0", "1", "2", "3", "4", "5", "6", "7", "8", "9" }

\* The characters a subdomain, a path and a query string may hold.
SubdomainChars == Letters \cup Digits \cup { "_", "-", "." }
PathChars == Letters \cup Digits \cup { "/", "_", "-", "+" }
QueryChars ==
  Letters \cup Digits \cup { "/", "_", "-", "+", "@", "?", "&", "=", ".", ":", "\"" }

\* Every character of the string s is in the set chars.
OnlyChars(s, chars) == \A k \in 1..Len(s) : s[k] \in chars

\* C11: whenever the transport has been invoked the subdomain is not empty
\* and holds only letters, digits, '_', '-' and '.'; a call with an empty
\* subdomain returns the 'no subdomain' error and a call whose subdomain
\* holds another character returns the 'invalid subdomain' error.
C11_SubdomainCheckedBeforeSend ==
  /\ Len(sent) >= 1 =>
       (Len(InSubdomain) > 0 /\ OnlyChars(InSubdomain, SubdomainChars))
  /\ (pc = "done" /\ Len(InSubdomain) = 0) =>
       rerr = Errorf("EVPProxy: no subdomain specified", << >>)
  /\ (pc = "done" /\ Len(InSubdomain) > 0
        /\ ~OnlyChars(InSubdomain, SubdomainChars)) =>
       rerr = Errorf("EVPProxy: invalid subdomain: ", InSubdomain)

\* A call without a subdomain header, with an acceptable path and query
\* string, has returned.
C11_Witness ==
  /\ pc = "done"
  /\ Len(InSubdomain) = 0
  /\ isValidPath(inreq.URL.Path)
  /\ isValidQueryString(inreq.URL.RawQuery)
  /\ rerr.msg = "EVPProxy: no subdomain specified"
  /\ sent = << >>

\* C12: each validator accepts a string exactly when every character of it
\* is an ASCII letter, an ASCII digit or one of the extra symbols of its
\* field ('_-.' for the subdomain, '/_-+' for the path, '/_-+@?&=.:"' for
\* the query string); the empty string is accepted by all of them.
C12_ValidatorsAcceptExactlyTheCharsets ==
  output # << >> =>
    /\ output[1].subdomain <=> OnlyChars(input, SubdomainChars)
    /\ output[1].path <=> OnlyChars(input, PathChars)
    /\ output[1].query <=> OnlyChars(input, QueryChars)
    /\ input = << >> => (output[1].path /\ output[1].query)

\* The validators were applied to "a@": only the query string validator
\* accepts it.
C12_Witness ==
  /\ input = << "a", "@" >>
  /\ output = << [subdomain |-> FALSE, path |-> FALSE, query |-> TRUE] >>

\* A maximum body size is configured and the inbound body is larger.
BodyOverLimit ==
  /\ inreq.Body.present
  /\ conf.EVPProxy.MaxPayloadSize > 0
  /\ Len(inreq.Body.data) > conf.EVPProxy.MaxPayloadSize

\* The request_error counter was emitted with the subdomain tag.
ErrorCountedWithSubdomain ==
  \E k \in 1..Len(metrics) :
    /\ metrics[k].name = "datadog.trace_agent.evp_proxy.request_error"
    /\ \E t \in 1..Len(metrics[k].tags) :
         metrics[k].tags[t] = subdomainTag \o InSubdomain

\* C13 as stated: when a maximum body size is configured and the body of an
\* accepted request is larger, no outbound request is sent to any
\* destination, the call fails with the read-limit error and the error counter
\* is emitted with the subdomain tag.
C13_NoSendWhenBodyOverLimit ==
  (pc = "done" /\ ~ValidationFails /\ BodyOverLimit) =>
    /\ sent = << >>
    /\ rerr = ErrLimitedReaderLimitReached
    /\ ErrorCountedWithSubdomain

\* C13, amended: when a maximum body size is configured and the body of an
\* accepted request is larger, then with more than one endpoint the
\* transport is not invoked, the call fails with the read-limit error and
\* the error counter is emitted with the subdomain tag; with exactly one
\* endpoint the transport is invoked once, on the request with the
\* size-limited body, and the call returns what that send returns, the
\* error counter being emitted with the subdomain tag when it is an error.
C13_BodyOverLimit ==
  (pc = "done" /\ ~ValidationFails /\ BodyOverLimit) =>
    /\ Len(endpoints) > 1 =>
         /\ sent = << >>
         /\ rresp = NilResp
         /\ rerr = ErrLimitedReaderLimitReached
         /\ ErrorCountedWithSubdomain
    /\ Len(endpoints) = 1 =>
         /\ Len(sent) = 1
         /\ sent[1].req.Body =
              NewLimitedReader(inreq.Body, conf.EVPProxy.MaxPayloadSize)
         /\ rresp = results[1].resp
         /\ rerr = results[1].err
         /\ rerr # NilErr => ErrorCountedWithSubdomain

\* A call with several endpoints has failed on a body over the limit.
C13_Witness ==
  /\ pc = "done"
  /\ ~ValidationFails
  /\ BodyOverLimit
  /\ Len(endpoints) > 1
  /\ rerr = ErrLimitedReaderLimitReached
  /\ sent = << >>

\* How many times the metric of this name was emitted.
Emitted(name) ==
  Cardinality({ k \in 1..Len(metrics) : metrics[k].name = name })

\* C14: every call, whatever its outcome and whatever the number of
\* endpoints, emits the request counter, the request_bytes counter and the
\* request_duration timing exactly once each, when it returns and not
\* before.
C14_MetricsOncePerCall ==
  /\ pc = "done" =>
       /\ Emitted("datadog.trace_agent.evp_proxy.request") = 1
       /\ Emitted("datadog.trace_agent.evp_proxy.request_bytes") = 1
       /\ Emitted("datadog.trace_agent.evp_proxy.request_duration_ms") = 1
  /\ pc # "done" => metrics = << >>

\* A call over several endpoints whose primary send failed has returned,
\* after every endpoint was sent to.
C14_Witness ==
  /\ pc = "done"
  /\ Len(endpoints) > 1
  /\ Len(sent) = Len(endpoints)
  /\ rerr # NilErr
  /\ Emitted("datadog.trace_agent.evp_proxy.request") = 1

\* C15: the request_error counter is emitted exactly once, with the tags of
\* the three other metrics of the call, when the call returns an error, and
\* not at all when it returns no error, also when secondaries failed.
C15_ErrorCounterIffError ==
  pc = "done" =>
    /\ rerr # NilErr =>
         /\ Emitted("datadog.trace_agent.evp_proxy.request_error") = 1
         /\ \A k, j \in 1..Len(metrics) : metrics[k].tags = metrics[j].tags
    /\ rerr = NilErr =>
         Emitted("datadog.trace_agent.evp_proxy.request_error") = 0

\* A call whose primary send failed has returned and counted the error with
\* the tags of the call.
C15_Witness ==
  /\ pc = "done"
  /\ ~ValidationFails
  /\ sent # << >>
  /\ rerr # NilErr
  /\ metricTags # << >>
  /\ Emitted("datadog.trace_agent.evp_proxy.request_error") = 1

\* The tags a call's metrics are to carry, from the inbound request alone.
InContentType == Get(inreq.Header, "Content-Type")
ContentTypeTagged(m) ==
  \E t \in 1..Len(m.tags) : m.tags[t] = contentTypeTag \o InContentType
SubdomainTagged(m) ==
  \E t \in 1..Len(m.tags) : m.tags[t] = subdomainTag \o InSubdomain

\* C16: the metrics of a call carry subdomain:<value> exactly when the
\* subdomain was non-empty and passed the subdomain check, also when the
\* path, the query or the body failed afterwards; they carry
\* content_type:<value> exactly when the inbound Content-Type was
\* non-empty; they carry no other tag.
C16_TagsOfMetrics ==
  \A k \in 1..Len(metrics) :
    /\ SubdomainTagged(metrics[k]) <=>
         (InSubdomain # << >> /\ OnlyChars(InSubdomain, SubdomainChars))
    /\ ContentTypeTagged(metrics[k]) <=> InContentType # << >>
    /\ \A t \in 1..Len(metrics[k].tags) :
         metrics[k].tags[t] \in
           { contentTypeTag \o InContentType, subdomainTag \o InSubdomain }
    /\ Len(metrics[k].tags) <= 2

\* A call with a checked subdomain that failed on its path or query has
\* returned, its metrics tagged with the subdomain.
C16_Witness ==
  /\ pc = "done"
  /\ ValidationFails
  /\ InSubdomain # << >>
  /\ isValidSubdomain(InSubdomain)
  /\ metrics # << >>
  /\ \A k \in 1..Len(metrics) : SubdomainTagged(metrics[k])

\* The configuration being resolved and what its default endpoint is to be.
Additional == input.EVPProxy.AdditionalEndpoints
DefaultHost ==
  IF input.EVPProxy.DDURL # << >> THEN input.EVPProxy.DDURL ELSE input.Site
DefaultAPIKey ==
  IF input.EVPProxy.APIKey # << >> THEN input.EVPProxy.APIKey ELSE input.APIKey

\* The positions after the first of a resolved list that hold this pair.
PairPositions(eps, host, key) ==
  { p \in 2..Len(eps) : eps[p] = [Host |-> host, APIKey |-> key] }

\* C17: for every configuration the resolved endpoint list is not empty,
\* its first element is the default endpoint, its length is 1 plus the
\* number of credentials over all additional hosts, and it holds one
\* endpoint per (host, credential) pair.
C17_OneEndpointPerPair ==
  pc = "resolver" =>
    \A n \in 1..Len(output) :
      LET eps == output[n]
      IN /\ Len(eps) >= 1
         /\ eps[1] = [Host |-> DefaultHost, APIKey |-> DefaultAPIKey]
         /\ Len(eps) = 1 + TotalKeys(Additional, DOMAIN Additional)
         /\ \A p \in 2..Len(eps) : eps[p].Host \in DOMAIN Additional
         /\ \A h \in DOMAIN Additional : \A key \in ResolverKeys :
              Cardinality(PairPositions(eps, h, key)) =
                Cardinality({ k \in 1..Len(Additional[h]) : Additional[h][k] = key })

\* A configuration with two additional hosts, one of them with a repeated
\* credential, has been resolved.
C17_Witness ==
  /\ pc = "resolver"
  /\ Len(output) >= 1
  /\ Cardinality(DOMAIN Additional) >= 2
  /\ \E h \in DOMAIN Additional :
       Len(Additional[h]) = 2 /\ Additional[h][1] = Additional[h][2]
  /\ Len(output[1]) >= 4

\* C18 as stated: the default endpoint takes each override when it is set
\* and the baseline value otherwise, the two independently, and when both
\* overrides are set the baseline site and the baseline credential appear
\* nowhere in the resolved list.
C18_BaselineNowhere ==
  pc = "resolver" =>
    \A n \in 1..Len(output) :
      /\ output[n][1] = [Host |-> DefaultHost, APIKey |-> DefaultAPIKey]
      /\ (input.EVPProxy.DDURL # << >> /\ input.EVPProxy.APIKey # << >>) =>
           \A p \in 1..Len(output[n]) :
             /\ output[n][p].Host # input.Site
             /\ output[n][p].APIKey # input.APIKey

\* C18, amended: the default endpoint takes each override when it is set and
\* the baseline value otherwise, the two independently; when both overrides
\* are set the default endpoint holds neither baseline value, and the
\* baseline site and credential appear in the resolved list only where an
\* additional destination names them.
C18_OverridesOfDefaultEndpoint ==
  pc = "resolver" =>
    \A n \in 1..Len(output) :
      /\ output[n][1].Host =
           (IF input.EVPProxy.DDURL # << >> THEN OverrideDDURL ELSE Site)
      /\ output[n][1].APIKey =
           (IF input.EVPProxy.APIKey # << >> THEN OverrideAPIKey ELSE BaselineAPIKey)
      /\ (input.EVPProxy.DDURL # << >> /\ input.EVPProxy.APIKey # << >>) =>
           \A p \in 1..Len(output[n]) :
             /\ output[n][p].Host = input.Site =>
                  p > 1 /\ input.Site \in DOMAIN Additional
             /\ output[n][p].APIKey = input.APIKey =>
                  /\ p > 1
                  /\ \E k \in 1..Len(Additional[output[n][p].Host]) :
                       Additional[output[n][p].Host][k] = input.APIKey

\* A configuration with both overrides set, whose additional endpoints name
\* the site with the baseline credential, has been resolved.
C18_Witness ==
  /\ pc = "resolver"
  /\ Len(output) >= 1
  /\ input.EVPProxy.DDURL # << >>
  /\ input.EVPProxy.APIKey # << >>
  /\ output[1][1] = [Host |-> OverrideDDURL, APIKey |-> OverrideAPIKey]
  /\ \E p \in 2..Len(output[1]) :
       output[1][p] = [Host |-> Site, APIKey |-> BaselineAPIKey]

\* C19: two resolutions of the same configuration yield the same sequence,
\* the default endpoint first and the additional pairs in one fixed order,
\* also when the additional endpoints have more than one host.
C19_SameSequenceTwice ==
  (pc = "resolver" /\ Len(output) = 2) => output[1] = output[2]

\* C20: when the proxy is disabled every request is answered with status
\* 405 and the fixed message, and nothing else happens: the request is not
\* validated or rewritten, the transport is not invoked, and no metric and
\* no log is emitted.
C20_DisabledAnswers405 ==
  ~conf.EVPProxy.Enabled =>
    /\ pc \in { "idle", "replied" }
    /\ pc = "idle" => reply = NoReply
    /\ pc = "replied" =>
         reply = [StatusCode |-> 405,
                  Body |-> << "EVPProxy is disabled: ",
                              "Has been disabled in config", "\n" >>]
    /\ sent = << >>
    /\ results = << >>
    /\ metrics = << >>
    /\ logs = << >>
    /\ req = inreq
    /\ subdomain = << >>
    /\ metricTags = << >>
    /\ rresp = NilResp
    /\ rerr = NilErr

\* A request that would pass the validation, with a body, has been answered
\* by the handler of a disabled proxy that has additional endpoints.
C20_Witness ==
  /\ ~conf.EVPProxy.Enabled
  /\ pc = "replied"
  /\ reply.StatusCode = 405
  /\ ~ValidationFails
  /\ inreq.Body.present
  /\ DOMAIN conf.EVPProxy.AdditionalEndpoints # {}

\* C23: every request handed to the transport has a User-Agent header equal
\* to the inbound User-Agent, set to the empty string when the inbound one
\* was empty, and has a Content-Type header exactly when the inbound
\* Content-Type was not empty, equal to it.
C23_UserAgentAndContentType ==
  \A k \in 1..Len(sent) :
    LET h == sent[k].req.Header
    IN /\ "User-Agent" \in DOMAIN h
       /\ h["User-Agent"] = << Get(inreq.Header, "User-Agent") >>
       /\ "Content-Type" \in DOMAIN h <=> InContentType # << >>
       /\ "Content-Type" \in DOMAIN h => h["Content-Type"] = << InContentType >>

\* A request without User-Agent and with a Content-Type was sent to two
\* endpoints, with an empty User-Agent header.
C23_Witness ==
  /\ Len(sent) >= 2
  /\ Get(inreq.Header, "User-Agent") = << >>
  /\ InContentType # << >>
  /\ sent[2].req.Header["User-Agent"] = << << >> >>

\* The container id of the inbound request and the tags the lookup of the
\* configuration holds for it.
InContainerID == Get(inreq.Header, "Datadog-Container-ID")
InContainerTags ==
  IF InContainerID \in DOMAIN conf.ContainerTags
    THEN conf.ContainerTags[InContainerID]
  ELSE << >>

\* C24: a request handed to the transport has the X-Datadog-Container-Tags
\* header exactly when the inbound request carried a container id and the
\* lookup returned a non-empty tag string for it, and then the header is
\* that string on the request of every destination.
C24_ContainerTagsHeader ==
  \A k \in 1..Len(sent) :
    LET h == sent[k].req.Header
    IN /\ "X-Datadog-Container-Tags" \in DOMAIN h <=>
            (InContainerID # << >> /\ InContainerTags # << >>)
       /\ "X-Datadog-Container-Tags" \in DOMAIN h =>
            h["X-Datadog-Container-Tags"] = << InContainerTags >>

\* A request with the id of a container that has tags was sent to two
\* endpoints with its tags.
C24_Witness ==
  /\ Len(sent) >= 2
  /\ InContainerID # << >>
  /\ InContainerTags # << >>
  /\ \A k \in 1..Len(sent) :
       Get(sent[k].req.Header, "X-Datadog-Container-Tags") = InContainerTags

\* What the fields of the inbound request are, by the character sets.
SubdomainOK == InSubdomain # << >> /\ OnlyChars(InSubdomain, SubdomainChars)
PathOK == OnlyChars(inreq.URL.Path, PathChars)
QueryOK == OnlyChars(inreq.URL.RawQuery, QueryChars)

\* C26: the validation checks subdomain, path and query in this order and
\* stops at the first that fails; the error returned names that field, so
\* that an invalid subdomain is reported whatever the path and the query
\* are, and an invalid path whatever the query is.
C26_FirstFailingFieldNamed ==
  (pc = "done" /\ ~(SubdomainOK /\ PathOK /\ QueryOK)) =>
    /\ InSubdomain = << >> =>
         rerr = [msg |-> "EVPProxy: no subdomain specified", arg |-> << >>]
    /\ (InSubdomain # << >> /\ ~SubdomainOK) =>
         rerr = [msg |-> "EVPProxy: invalid subdomain: ", arg |-> InSubdomain]
    /\ (SubdomainOK /\ ~PathOK) =>
         rerr = [msg |-> "EVPProxy: invalid target path: ", arg |-> inreq.URL.Path]
    /\ (SubdomainOK /\ PathOK) =>
         rerr = [msg |-> "EVPProxy: invalid query string: ",
                 arg |-> inreq.URL.RawQuery]

\* A request whose subdomain, path and query are all invalid was reported
\* as an invalid subdomain.
C26_Witness ==
  /\ pc = "done"
  /\ InSubdomain # << >>
  /\ ~SubdomainOK
  /\ ~PathOK
  /\ ~QueryOK
  /\ rerr.msg = "EVPProxy: invalid subdomain: "

\* How many bytes the transport read from this reader in the sends before
\* the k-th.
RECURSIVE ReadBefore(_, _)
ReadBefore(reader, k) ==
  IF k <= 1 THEN 0
  ELSE ReadBefore(reader, k - 1)
       + (IF sent[k - 1].reader = reader /\ k - 1 <= Len(results)
            THEN results[k - 1].read ELSE 0)

\* The bytes the destination of the k-th send can still read from the body
\* of its request.
Available(k) ==
  LET data == sent[k].req.Body.data
  IN SubSeq(data, ReadBefore(sent[k].reader, k) + 1, Len(data))

\* C27: with more than one endpoint the body of the inbound request is read
\* in full before the first send (Slurp, the one step that reads it, comes
\* before every Send); the request of every destination has a reader of its
\* own over these bytes, so that each destination can read the whole body
\* whatever the earlier destinations read of theirs; and a request without
\* a body gives requests without a body.
C27_IndependentReadersOverSlurp ==
  (Len(endpoints) > 1 /\ sent # << >>) =>
    /\ inreq.Body.present =>
         /\ ~slurp.isNil
         /\ slurp.data = inreq.Body.data
         /\ \A k \in 1..Len(sent) :
              /\ sent[k].req.Body = NewReader(inreq.Body.data)
              /\ sent[k].reader # 0
              /\ \A j \in 1..Len(sent) : j # k => sent[j].reader # sent[k].reader
              /\ Available(k) = inreq.Body.data
    /\ ~inreq.Body.present =>
         /\ slurp.isNil
         /\ \A k \in 1..Len(sent) : sent[k].req.Body = NoBody

\* Three destinations were sent a body of two bytes, after the first two of
\* them had read theirs to the end.
C27_Witness ==
  /\ Len(sent) = 3
  /\ Len(inreq.Body.data) = 2
  /\ results[1].read = 2
  /\ results[2].read = 2
  /\ Available(3) = inreq.Body.data

\* The body of the request RoundTrip works on, once it is wrapped.
LimitedInBody ==
  IF inreq.Body.present /\ conf.EVPProxy.MaxPayloadSize > 0
    THEN NewLimitedReader(inreq.Body, conf.EVPProxy.MaxPayloadSize)
  ELSE inreq.Body

\* C28: with exactly one endpoint RoundTrip reads no byte of the body: a
\* request that passes the validation is handed to the transport once, the
\* very request RoundTrip works on with its size-limited body, and what that
\* send returns is returned unchanged; an error of the body can only be
\* the error of that send.
C28_SingleEndpointStreams ==
  Len(endpoints) = 1 =>
    /\ slurp.isNil
    /\ Len(sent) <= 1
    /\ \A k \in 1..Len(sent) :
         /\ sent[k].reader = 0
         /\ sent[k].req = req
         /\ sent[k].req.Body = LimitedInBody
    /\ (pc = "done" /\ ~ValidationFails) =>
         /\ Len(sent) = 1
         /\ Len(results) = 1
         /\ rresp = results[1].resp
         /\ rerr = results[1].err
         /\ respBody = << [drained |-> 0, closed |-> 0] >>
    /\ (pc = "done" /\ rerr = ReadErr(LimitedInBody) /\ rerr # NilErr) =>
         /\ Len(sent) = 1
         /\ results[1].err = rerr

\* With one endpoint a body over the limit was handed to the transport,
\* whose read-limit error was returned.
C28_Witness ==
  /\ Len(endpoints) = 1
  /\ pc = "done"
  /\ BodyOverLimit
  /\ Len(sent) = 1
  /\ sent[1].req.Body.limit = conf.EVPProxy.MaxPayloadSize
  /\ rerr = ErrLimitedReaderLimitReached

\* C29: with more than one endpoint, when the body cannot be read to its
\* end (it is over the limit, or the read fails otherwise), RoundTrip
\* returns that error and the transport is not invoked at all, the primary
\* endpoint included; the header of the request is rewritten by then.
C29_BufferingFailureSendsNothing ==
  (pc = "done" /\ Len(endpoints) > 1 /\ ~ValidationFails
     /\ ReadErr(LimitedInBody) # NilErr) =>
    /\ sent = << >>
    /\ results = << >>
    /\ rresp = NilResp
    /\ rerr = ReadErr(LimitedInBody)
    /\ slurp.isNil
    /\ DOMAIN req.Header \subseteq OutboundHeaderNames \ { "DD-API-KEY" }
    /\ "Via" \in DOMAIN req.Header

\* With three endpoints a request with unrecognized headers and a body whose
\* read fails has returned the error of the read.
C29_Witness ==
  /\ pc = "done"
  /\ Len(endpoints) = 3
  /\ ~ValidationFails
  /\ inreq.Body.broken
  /\ rerr = ErrUnexpectedEOF
  /\ sent = << >>
  /\ "Unexpected-Header" \in DOMAIN inreq.Header
  /\ "Unexpected-Header" \notin DOMAIN req.Header

\* C30: the response of every successful secondary send is drained and
\* closed once, before the next send and before RoundTrip returns, and is
\* not what RoundTrip returns; the response of the primary send is neither
\* drained nor closed.
C30_SecondaryResponsesDrained ==
  Len(endpoints) > 1 =>
    /\ Len(respBody) = Len(results)
    /\ Len(sent) <= Len(respBody) + 1
    /\ pc = "done" => Len(respBody) = Len(sent)
    /\ \A k \in 1..Len(respBody) :
         /\ k = 1 => respBody[k] = [drained |-> 0, closed |-> 0]
         /\ (k > 1 /\ results[k].err = NilErr) =>
              /\ respBody[k] = [drained |-> 1, closed |-> 1]
              /\ rresp # results[k].resp
         /\ (k > 1 /\ results[k].err # NilErr) =>
              respBody[k] = [drained |-> 0, closed |-> 0]

\* Three endpoints answered; the responses of the two secondaries were
\* drained and closed and the response of the primary was returned.
C30_Witness ==
  /\ pc = "done"
  /\ Len(endpoints) = 3
  /\ Len(results) = 3
  /\ \A k \in 1..3 : results[k].err = NilErr
  /\ respBody[2] = [drained |-> 1, closed |-> 1]
  /\ respBody[3] = [drained |-> 1, closed |-> 1]
  /\ rresp = results[1].resp

\* The pieces of a string between its '/' characters.
RECURSIVE Segments(_)
Segments(str) ==
  IF \A k \in 1..Len(str) : str[k] # "/" THEN << str >>
  ELSE LET cut == CHOOSE k \in 1..Len(str) :
                    str[k] = "/" /\ \A j \in 1..(k - 1) : str[j] # "/"
       IN << SubSeq(str, 1, cut - 1) >> \o Segments(SubSeq(str, cut + 1, Len(str)))

\* A string of digits whose value is at most 1<<63 - 1, the largest int64.
FitsInt64(ds) ==
  LET v == StripZeros(ds)
  IN Len(v) < Len(MaxInt64) \/ (Len(v) = Len(MaxInt64) /\ DigitsLeq(v, MaxInt64))

\* The path is five non-empty segments, the second a decimal integer that
\* fits in 64 bits, the third the name of a product.
WellFormedFilePath(path) ==
  LET segs == Segments(path)
  IN /\ Len(segs) = 5
     /\ \A k \in 1..5 : segs[k] # << >>
     /\ OnlyChars(segs[2], Digits)
     /\ FitsInt64(segs[2])
     /\ segs[3] \in Product_value

\* C25: ParseFilePath succeeds exactly when the path is five non-empty
\* segments separated by '/', the second a decimal integer (digits) that
\* fits in 64 bits (an int64, the type of OrgID), the third a known product
\* name; then the fields are the segments, OrgID the value of the second,
\* and Type is TypeDatadog exactly when the first segment is "datadog",
\* TypeUnknown otherwise; when it fails it returns the zero FileMeta and an
\* error.
C25_ParseFilePath ==
  (pc = "parser" /\ output # << >>) =>
    LET segs == Segments(input)
        out == output[1]
    IN /\ out.err = NilErr <=> WellFormedFilePath(input)
       /\ WellFormedFilePath(input) =>
            /\ out.meta.Type = (IF segs[1] = << "d", "a", "t", "a", "d", "o", "g" >>
                                  THEN TypeDatadog ELSE TypeUnknown)
            /\ out.meta.OrgID = StripZeros(segs[2])
            /\ out.meta.Product = segs[3]
            /\ out.meta.ConfigID = segs[4]
            /\ out.meta.Name = segs[5]
       /\ ~WellFormedFilePath(input) =>
            /\ out.meta = ZeroFileMeta
            /\ out.err # NilErr

\* A path of type "datadog" whose org id is the largest int64, written with
\* a leading zero, was parsed.
C25_Witness ==
  /\ pc = "parser"
  /\ output # << >>
  /\ output[1].err = NilErr
  /\ output[1].meta.Type = TypeDatadog
  /\ output[1].meta.OrgID = MaxInt64
  /\ Segments(input)[2] = << "0" >> \o MaxInt64

\* The call failed: on the validation, on the reading of the body for
\* several endpoints, or on the primary send.
CallFailed ==
  \/ ValidationFails
  \/ Len(endpoints) > 1 /\ ReadErr(LimitedInBody) # NilErr
  \/ results # << >> /\ results[1].err # NilErr

\* The cause of the failure of the call.
FailureCause ==
  IF ValidationFails THEN rerr
  ELSE IF Len(endpoints) > 1 /\ ReadErr(LimitedInBody) # NilErr
    THEN ReadErr(LimitedInBody)
  ELSE results[1].err

\* C21: a failure of the validation, of the reading of the body or of the
\* primary send is answered to the caller with one response, 502 Bad
\* Gateway without any part of a response of an endpoint, and one entry
\* naming the cause is written to the error log of the proxy; otherwise the
\* caller gets the response of the primary endpoint, also when secondary
\* endpoints failed.
C21_FailureAnsweredBadGateway ==
  /\ pc # "replied" => (reply = NoReply /\ errorLog = << >>)
  /\ (pc = "replied" /\ CallFailed) =>
       /\ reply = [StatusCode |-> 502, Body |-> << >>]
       /\ errorLog = << [msg |-> "http: proxy error: ", err |-> FailureCause] >>
       /\ FailureCause # NilErr
       /\ ValidationFails =>
            FailureCause.msg \in { "EVPProxy: no subdomain specified",
                                   "EVPProxy: invalid subdomain: ",
                                   "EVPProxy: invalid target path: ",
                                   "EVPProxy: invalid query string: " }
  /\ (pc = "replied" /\ ~CallFailed) =>
       /\ reply = [StatusCode |-> results[1].resp.StatusCode, Body |-> << 1 >>]
       /\ reply.StatusCode = 200
       /\ errorLog = << >>

\* A body over the limit, for several endpoints, was answered with 502 and
\* the read-limit error was written to the error log.
C21_Witness ==
  /\ pc = "replied"
  /\ ~ValidationFails
  /\ BodyOverLimit
  /\ Len(endpoints) > 1
  /\ reply.StatusCode = 502
  /\ errorLog = << [msg |-> "http: proxy error: ",
                    err |-> ErrLimitedReaderLimitReached] >>

\* The k-th request the call c handed to the transport is derived from the
\* request the call received, and from nothing else.
OwnRequest(c, k) ==
  LET l == calls[c]
      r == l.sent[k].req
      e == endpoints[l.sent[k].idx + 1]
      sub == Get(l.inreq.Header, "X-Datadog-EVP-Subdomain")
  IN /\ r.Host = sub \o << "." >> \o e.Host
     /\ r.URL.Host = r.Host
     /\ r.URL.Path = l.inreq.URL.Path
     /\ r.URL.RawQuery = l.inreq.URL.RawQuery
     /\ Get(r.Header, "User-Agent") = Get(l.inreq.Header, "User-Agent")
     /\ Get(r.Header, "Content-Type") = Get(l.inreq.Header, "Content-Type")
     /\ Get(r.Header, "X-Datadog-Container-Tags") =
          getContainerTags(conf.ContainerTags,
                           Get(l.inreq.Header, "Datadog-Container-ID"))
     /\ Get(r.Header, "DD-API-KEY") = e.APIKey
     /\ r.Body.present = l.inreq.Body.present
     /\ r.Body.data = l.inreq.Body.data

\* The call c has returned the result of its own primary send.
OwnResult(c) ==
  LET l == calls[c]
  IN (l.pc = "done" /\ l.results # << >>) =>
       /\ l.rresp = l.results[1].resp
       /\ l.rerr = l.results[1].err
       /\ l.rerr = NilErr => l.rresp.send = << c, 1 >>

\* C22: in every interleaving of the concurrent calls on one transport,
\* each request handed to the transport has the subdomain, the headers and
\* the body of the inbound request of its own call, each call returns the
\* result of its own primary send, and no step changes the endpoints or the
\* configuration of the transport.
C22_CallsIsolated ==
  /\ [](\A c \in DOMAIN calls :
          /\ \A k \in 1..Len(calls[c].sent) : OwnRequest(c, k)
          /\ OwnResult(c))
  /\ [][conf' = conf /\ endpoints' = endpoints]_vars

\* Two calls with different subdomains, headers and bodies have both
\* returned, after each had sent to two endpoints.
C22_Witness ==
  /\ pc = "concurrent"
  /\ \A c \in CallIds : calls[c].pc = "done" /\ Len(calls[c].sent) = 2
  /\ calls[1].subdomain # calls[2].subdomain
  /\ calls[1].inreq.Header # calls[2].inreq.Header
  /\ calls[1].inreq.Body # calls[2].inreq.Body
  /\ calls[1].rerr = NilErr
  /\ calls[2].rerr # NilErr


\* No inner tailer that was started is still running.
NoInnerRunning ==
  \A k \in 1..Len(tailer.inners) : ~tailer.inners[k].running

\* C31: once Stop, called after Start, has returned, the run loop has exited,
\* t.stopped has been closed exactly once and no inner tailer is left
\* running; and a Stop that waits at its receive eventually returns, whether
\* the loop was at a start attempt, had an inner tailer running or was
\* waiting for the backoff timer.
C31_StopReturnsAfterCleanup ==
  /\ [](tailer.stop = "returned" =>
          /\ tailer.run = "returned"
          /\ tailer.stopped = "closed"
          /\ tailer.closes = 1
          /\ NoInnerRunning)
  /\ (tailer.stop = "waiting" ~> tailer.stop = "returned")

\* Stop has returned after it found the loop with an inner tailer running,
\* which the loop stopped, and after an earlier wait for the backoff timer.
C31_Witness ==
  /\ tailer.stop = "returned"
  /\ tailer.inner # 0
  /\ tailer.inners[tailer.inner].stops = 1
  /\ \E k \in 1..Len(tailer.attempts) : tailer.attempts[k].waited > 0


\* How many attempts in a row failed, up to and with the attempt k.
RECURSIVE FailuresUpTo(_)
FailuresUpTo(k) ==
  IF k = 0 \/ tailer.attempts[k].ok THEN 0 ELSE 1 + FailuresUpTo(k - 1)

\* The waits of a streak of failures that ends with the loop giving up.
StreakWaits == << 1, 2, 4, 8, 16, 32 >>

\* The run loop returned though nobody had cancelled the context.
GaveUp ==
  /\ tailer.run = "returned"
  /\ tailer.ctx # "done"

\* C32: the attempt after a failed one comes after a wait of the backoff the
\* failed one saw, and sees twice that backoff; the first attempt and the
\* attempt after a successful one see the initial backoff, with no wait; the
\* waits of a streak of failures are 1, 2, 4, 8, 16, 32 seconds, and the
\* loop gives up on the 7th failure in a row, never before, with no attempt
\* after it.
C32_BackoffDoublesAndGivesUp ==
  \A k \in 1..Len(tailer.attempts) :
    LET a == tailer.attempts[k]
        n == FailuresUpTo(k - 1)
    IN /\ IF k > 1 /\ ~tailer.attempts[k - 1].ok
            THEN /\ a.waited = tailer.attempts[k - 1].backoff
                 /\ a.backoff = 2 * tailer.attempts[k - 1].backoff
                 /\ a.waited = StreakWaits[n]
          ELSE /\ a.waited = 0
               /\ a.backoff = backoffInitialDuration
       /\ n <= Len(StreakWaits)
       /\ ~a.ok /\ n = Len(StreakWaits) =>
            /\ k = Len(tailer.attempts)
            /\ tailer.run = "returned"
       /\ GaveUp /\ k = Len(tailer.attempts) => ~a.ok /\ n = Len(StreakWaits)

\* A failed start, a successful one, then seven failures in a row, after
\* which the loop gave up.
C32_Witness ==
  /\ GaveUp
  /\ Len(tailer.attempts) = 9
  /\ ~tailer.attempts[1].ok
  /\ tailer.attempts[2].ok
  /\ \A k \in 3..9 : ~tailer.attempts[k].ok
  /\ tailer.attempts[9].waited = 32
  /\ tailer.attempts[9].backoff = 64


\* C33: at most one inner tailer is running, and it is the one the loop holds
\* at its select; no inner tailer is stopped twice; whenever the loop is
\* about to make a start attempt or has returned, every inner tailer that was
\* started has been stopped exactly once; and the start attempt that follows
\* a successful one, that is the re-creation of a tailer that failed, comes
\* with no backoff wait.
C33_OneInnerStoppedOnce ==
  /\ \A j, k \in 1..Len(tailer.inners) :
       tailer.inners[j].running /\ tailer.inners[k].running => j = k
  /\ \A k \in 1..Len(tailer.inners) :
       /\ tailer.inners[k].stops <= 1
       /\ tailer.inners[k].running <=> tailer.inners[k].stops = 0
       /\ tailer.inners[k].running => tailer.run = "select" /\ tailer.inner = k
  /\ tailer.run \in { "start", "returned" } =>
       \A k \in 1..Len(tailer.inners) :
         ~tailer.inners[k].running /\ tailer.inners[k].stops = 1
  /\ \A k \in 2..Len(tailer.attempts) :
       tailer.attempts[k - 1].ok => tailer.attempts[k].waited = 0

\* An inner tailer failed and was stopped, the next was started at once and
\* failed too, the third was stopped when the loop exited on Stop.
C33_Witness ==
  /\ tailer.run = "returned"
  /\ tailer.stop = "returned"
  /\ Len(tailer.inners) = 3
  /\ \A k \in 1..3 : tailer.inners[k].stops = 1
  /\ Len(tailer.attempts) = 3
  /\ \A k \in 1..3 : tailer.attempts[k].ok /\ tailer.attempts[k].waited = 0


\* C34: once Close has been called the goroutine of Channel eventually
\* returns, whoever receives or does not receive from the two channels, and
\* once it has returned on the stop signal it sends nothing more.
C34_GoroutineEndsAfterClose ==
  /\ (pipe.stop = "closed" /\ pipe.goroutine # "none" ~> pipe.goroutine = "returned")
  /\ [][pipe.goroutine = "returned" =>
          /\ pipe'.goroutine = "returned"
          /\ pipe'.events = pipe.events
          /\ pipe'.errors = pipe.errors]_vars

====
